---- MODULE Spec2Model ----
(***************************************************************************)
(* A model of the feed reader github.com/AzinKhan/rss: the filter          *)
(* closures of feeds.go, the item loop of GetFeedItems, the concurrent     *)
(* fetches (RefreshFeeds and the channel fan-in of main), the display      *)
(* modes, and the stream consumer of RunApp.                               *)
(*                                                                         *)
(* Several specifications share the variables; each leaves the part of    *)
(* the state it does not use at its initial value:                         *)
(*   SpecFilters   items presented to one list of filter closures          *)
(*   SpecBatch     RefreshFeeds: one goroutine per URL, joined by a         *)
(*                 WaitGroup                                                *)
(*   SpecStream    the fan-in of main: one goroutine per URL sending on a   *)
(*                 shared channel that is closed after the WaitGroup       *)
(*   SpecDisplay   one call of a display mode on a slice of items          *)
(*   SpecPipeline  fetched feeds, some nil, go through GetFeedItems or      *)
(*                 arrive at the stream consumer of RunApp                  *)
(*   SpecStore     feeds are stored in a folder, merged with what is there  *)
(*   SpecApp       RunApp: the event loop, the consumer of the feeds        *)
(*                 channel and the start of the browser                     *)
(*   SpecParser    calls of the date parser newDateParser returns           *)
(*   SpecCreator   calls of the item creator newFeedItemCreator returns     *)
(*   SpecMain      main of cmd/main.go: the fetches, then GetFeedItems or    *)
(*                 the consumer of RunApp on the stream of feeds            *)
(*   SpecSession   an interactive session: the stream, the consumer of      *)
(*                 RunApp and the keys of the event loop                    *)
(*   SpecWrapper   one call of the closure newLineWrapper returns           *)
(* SpecBatchFair, SpecSessionFair and SpecWrapperFair add the fairness of   *)
(* the scheduler for the claims about termination.                          *)
(***************************************************************************)
EXTENDS Integers, Sequences, FiniteSets, TLC

VARIABLES
    now,        \* the wall clock read by time.Now() / time.Since()
    filters,    \* the filter list of the run: a sequence of closures' parameters
    fstate,     \* the captured variables of each closure (urls, counts, count)
    presented,  \* history kept per closure: what it was called with (for the claims)
    last,       \* the last item presented to the filter list and what each call returned
    ncalls,     \* number of items presented to the filter list so far
    \* RefreshFeeds (feeds.go:252-270)
    urlsB,      \* the urls argument
    spawned,    \* how many goroutines the loop has started
    taskpc,     \* where each goroutine is
    result,     \* each goroutine's local result
    served,     \* the document each fetch got, or "failed" (for the claims)
    order,      \* the goroutines in the order they completed their fetch
    wg,         \* the WaitGroup counter
    results,    \* the results slice
    mainpc,     \* where RefreshFeeds is
    ret,        \* what RefreshFeeds returned
    \* the channel fan-in of main (main.go:360-378); it has urlsB, spawned, taskpc,
    \* result, wg and mainpc as RefreshFeeds has
    resultsCh,  \* the results channel: its buffer and whether it is closed
    errsCh,     \* the errs channel
    sent,       \* the goroutines in the order of their sends on results (for the claims)
    pushed,     \* every value sent on results, in order (for the claims)
    received,   \* the values the range loop over results received
    panic,      \* the runtime panic that ended the program, if any
    \* the display modes (feeds.go:112-140)
    feedItems,  \* the caller's slice, passed to the display mode
    feedItems0, \* its elements before the call (for the claims)
    displayed,  \* the slice the display mode returned
    dpc,        \* which display mode was called, "start" before the call
    \* GetFeedItems (feeds.go:209-232); it appends to feedItems
    feeds,      \* the feeds argument
    fi,         \* index of the feed the outer loop is at
    ii,         \* index of the item the inner loop is at
    createdAt,  \* the time.Now() newFeedItemCreator read for the feed at hand
    gpc,        \* where GetFeedItems is
    \* the stream consumer of RunApp (app.go:62-90)
    mode,       \* the display mode passed to RunApp
    list,       \* the tview.List: its items and the index of the current item
    listIndex,  \* i, the index of the next insertion
    currentPosition, \* the current item read before the insertions
    pending,    \* items[k:], the items of the feed at hand still to be inserted
    cpc,        \* where the consumer is
    arrived,    \* the feeds received from the channel so far (for the claims)
    handled,    \* how many of them went through the whole loop body (for the claims)
    \* Store (colour.go:119-145)
    files,      \* the files of the folder: what was written under each name
    lastStore,  \* the feed of the last call of Store and what it returned (for the claims)
    nstores,    \* number of calls of Store so far
    \* the interactive display of RunApp (app.go:32-185)
    focus,      \* the primitive app.GetFocus() returns: "list" or "textView"
    textView,   \* the text of the detail pane
    listBorder, \* border colour of listFlex
    textBorder, \* border colour of textFlex
    bpc,        \* where the goroutine that starts the browser is: b is set when "done";
                \* "synced" once the event loop has returned from wg.Wait()
    exited,     \* whether the program has ended, and how
    uipc,       \* where the event loop is in the handling of a key
    event,      \* the key being handled
    selected,   \* the secondary text the selected function was called with
    lastSelect, \* the list entry of the last call of the selected function (for the claims)
    \* the date parser (feeds.go:340-355)
    parserT,    \* t, the timestamp newDateParser was given
    dateCall,   \* the last call of the closure: its argument and what it returned
    nparses,    \* number of calls of the closure so far
    \* the item creator (feeds.go:318-338)
    creator,    \* the feed newFeedItemCreator was given and the time.Now() it read
    itemCall,   \* the last call of the closure: its argument and what it returned
    nitems,     \* number of calls of the closure so far
    \* the closure of newLineWrapper (app.go:339-359)
    softLimit,  \* the soft limit the wrapper was made with
    input,      \* the string the closure was called with (for the claims)
    body,       \* what is left of the string
    lines,      \* result, the lines so far
    wpc         \* where the closure is

fvars == <<filters, fstate, presented, last, ncalls>>
bvars == <<urlsB, spawned, taskpc, result, served, order, wg, results, mainpc, ret>>
bvars_but_mainpc == <<urlsB, spawned, taskpc, result, served, order, wg, results, ret>>
svars == <<resultsCh, errsCh, sent, pushed, received, panic>>
dvars == <<feedItems, feedItems0, displayed, dpc>>
gvars == <<feeds, fi, ii, createdAt, gpc>>
cvars == <<mode, list, listIndex, currentPosition, pending, cpc, arrived, handled>>
stvars == <<files, lastStore, nstores>>
uvars == <<focus, textView, listBorder, textBorder, bpc, exited, uipc, event, selected,
           lastSelect>>
qvars == <<parserT, dateCall, nparses>>
nvars == <<creator, itemCall, nitems>>
wvars == <<softLimit, input, body, lines, wpc>>
pvars == <<gvars, cvars, stvars, uvars, qvars, nvars, wvars>>
vars == <<now, fvars, bvars, svars, dvars, pvars>>

----------------------------------------------------------------------------
(* Bounds *)

\* Width of the model's time.Duration: it saturates at +-2^(DurationBits-1)
\* time units, as Go's int64 nanosecond Duration saturates at +-2^63.
DurationBits == 2

\* Number of items presented to a filter list in one run.
MaxCalls == 3

\* Largest cap n passed to MaxItems / MaxItemsPerChannel.
MaxN == 2

\* Largest number of URLs passed to RefreshFeeds.
MaxURLs == 3

----------------------------------------------------------------------------
(* time.Time and time.Duration *)

maxDuration == 2^(DurationBits - 1) - 1
minDuration == -(2^(DurationBits - 1))
Durations == minDuration..maxDuration

\* Instants. Instant 0 is the zero time.Time; the clock runs far enough from it
\* that differences exceed what a Duration holds.
MaxTime == maxDuration + 2
Times == 0..MaxTime

\* t.Sub(u): the difference, saturated to the range of a Duration.
Sub(t, u) ==
    IF t - u > maxDuration THEN maxDuration
    ELSE IF t - u < minDuration THEN minDuration
    ELSE t - u

\* time.Since(t) at clock reading n
Since(n, t) == Sub(n, t)

\* t.After(u)
After(t, u) == t > u

----------------------------------------------------------------------------
(* FeedItem. A title is a string, kept as the sequence of its pieces so     *)
(* that what is put around it stays visible; "" is <<>>.                    *)

LinkNames == {"a", "b"}
ChannelNames == {"1", "2"}

\* Links of an item: none (a hand-built item), one, or two (link and comments)
LinkSeqs == {<<>>, <<"a">>, <<"b">>, <<"a", "a">>, <<"a", "b">>}

FeedItem(title, pub, links, feed, channel) ==
    [Title |-> title, PublishTime |-> pub, Links |-> links,
     Feed |-> feed, Channel |-> channel]

\* FeedItem{}
ZeroItem == FeedItem(<<>>, 0, <<>>, "", "")

Range(s) == {s[i] : i \in 1..Len(s)}

----------------------------------------------------------------------------
(* Filters: each closure is a record of its parameters; its captured        *)
(* variables are a record [urls, counts, count].                           *)

NewState == [urls |-> {}, counts |-> [c \in ChannelNames |-> 0], count |-> 0]

RECURSIVE DedupLoop(_, _, _)
\* the range loop of the Deduplicate closure, from link k on
DedupLoop(urls, links, k) ==
    IF k > Len(links) THEN [ok |-> TRUE, urls |-> urls]
    ELSE IF links[k] \in urls THEN [ok |-> FALSE, urls |-> urls]
    ELSE DedupLoop(urls \cup {links[k]}, links, k + 1)

\* A plausible slip: the set is made in the closure that is returned, so
\* every call starts with an empty one
DeduplicateFreshSet(st, item) ==
    LET r == DedupLoop({}, item.Links, 1)
    IN  [ok |-> r.ok, st |-> st]

Deduplicate(st, item) ==
    LET r == DedupLoop(st.urls, item.Links, 1)
    IN  [ok |-> r.ok, st |-> [st EXCEPT !.urls = r.urls]]

OldestItem(maxAge, n, item) ==
    Since(n, item.PublishTime) <= maxAge

MaxItemsPerChannelShared(n, st, item) ==
    IF n = 0 THEN [ok |-> TRUE, st |-> st]
    ELSE LET total == st.count + 1
         IN  [ok |-> total <= n, st |-> [st EXCEPT !.count = total]]

MaxItemsPerChannel(n, st, item) ==
    IF n = 0 THEN [ok |-> TRUE, st |-> st]
    ELSE LET channelCount == st.counts[item.Channel] + 1
         IN  [ok |-> channelCount <= n,
              st |-> [st EXCEPT !.counts[item.Channel] = channelCount]]

MaxItemsOffByOne(n, st, item) ==
    IF n = 0 THEN [ok |-> TRUE, st |-> st]
    ELSE [ok |-> st.count + 1 < n, st |-> [st EXCEPT !.count = st.count + 1]]

\* A plausible slip: the count starts again once the cap was passed
MaxItemsRestarting(n, st, item) ==
    IF n = 0 THEN [ok |-> TRUE, st |-> st]
    ELSE [ok |-> st.count + 1 <= n,
          st |-> [st EXCEPT !.count = IF st.count + 1 > n THEN 0 ELSE st.count + 1]]

MaxItems(n, st, item) ==
    IF n = 0 THEN [ok |-> TRUE, st |-> st]
    ELSE [ok |-> st.count + 1 <= n, st |-> [st EXCEPT !.count = st.count + 1]]

\* One call of the closure f with captured variables st
CallFilter(f, st, n, item) ==
    CASE f.kind = "Deduplicate" -> Deduplicate(st, item)
      [] f.kind = "OldestItem" -> [ok |-> OldestItem(f.maxAge, n, item), st |-> st]
      [] f.kind = "MaxItemsPerChannel" -> MaxItemsPerChannel(f.n, st, item)
      [] f.kind = "MaxItems" -> MaxItems(f.n, st, item)

RECURSIVE FilterLoop(_, _, _, _, _, _)
\* the loop over the filters: calls them from filter k on and stops at the first
\* false. rets holds what the filters called so far returned.
FilterLoop(fs, sts, n, item, k, rets) ==
    IF k > Len(fs) THEN [ok |-> TRUE, sts |-> sts, results |-> rets]
    ELSE LET r == CallFilter(fs[k], sts[k], n, item)
             sts2 == [sts EXCEPT ![k] = r.st]
         IN  IF ~r.ok
             THEN [ok |-> FALSE, sts |-> sts2, results |-> Append(rets, FALSE)]
             ELSE FilterLoop(fs, sts2, n, item, k + 1, Append(rets, TRUE))

RECURSIVE FilterLoopAll(_, _, _, _, _, _)
\* A plausible slip: every filter is called, the results are ANDed afterwards
FilterLoopAll(fs, sts, n, item, k, rets) ==
    IF k > Len(fs)
    THEN [ok |-> \A j \in 1..Len(rets) : rets[j], sts |-> sts, results |-> rets]
    ELSE LET r == CallFilter(fs[k], sts[k], n, item)
         IN  FilterLoopAll(fs, [sts EXCEPT ![k] = r.st], n, item, k + 1,
                           Append(rets, r.ok))

ApplyFiltersAll(fs, sts, n, item) == FilterLoopAll(fs, sts, n, item, 1, <<>>)

ApplyFilters(fs, sts, n, item) == FilterLoop(fs, sts, n, item, 1, <<>>)

----------------------------------------------------------------------------
(* Feeds and the fetch of one URL                                           *)

\* a nil *Feed
Nil == [nil |-> TRUE]

\* &Feed{url, rss}
Feed(url, rss) == [nil |-> FALSE, URL |-> url, RSS |-> rss]

URLs == {"u1", "u2"}

\* What a fetch can meet: client.Get fails, reading the body fails, the body is
\* not a feed document, or the body decodes to a document.
FetchErrors == {"get", "read", "unmarshal"}

\* getFeed (feeds.go:272-287), when the fetch meets resp
getFeed(url, resp) ==
    IF resp \in FetchErrors
    THEN [feed |-> Nil, err |-> resp]
    ELSE [feed |-> Feed(url, resp), err |-> "nil"]

----------------------------------------------------------------------------
(* SpecBatch: RefreshFeeds                                                  *)

\* the documents the hosts serve in this specification
BatchDocs == {"doc"}

BatchIdle ==
    /\ urlsB = <<>>
    /\ spawned = 0
    /\ taskpc = <<>>
    /\ result = <<>>
    /\ served = <<>>
    /\ order = <<>>
    /\ wg = 0
    /\ results = <<>>
    /\ mainpc = "idle"
    /\ ret = <<>>

\* a channel made by make(chan T, n)
MakeChan(n) == [buf |-> <<>>, closed |-> FALSE, cap |-> n]

StreamIdle ==
    /\ resultsCh = MakeChan(0)
    /\ errsCh = MakeChan(0)
    /\ sent = <<>>
    /\ pushed = <<>>
    /\ received = <<>>
    /\ panic = "none"

DisplayIdle ==
    /\ feedItems = <<>>
    /\ feedItems0 = <<>>
    /\ displayed = <<>>
    /\ dpc = "idle"

\* a name under which nothing was written
NoFile == [exists |-> FALSE]

FileNames == {"1"}

StoreIdle ==
    /\ files = [name \in FileNames |-> NoFile]
    /\ lastStore = [feed |-> Nil, err |-> "nil", again |-> FALSE]
    /\ nstores = 0

\* no entry of the list
NoEntry == [MainText |-> <<>>, SecondaryText |-> <<>>, none |-> TRUE]

AppIdle ==
    /\ focus = "list"
    /\ textView = <<>>
    /\ listBorder = "green"
    /\ textBorder = "gray"
    /\ bpc = "idle"
    /\ exited = "no"
    /\ uipc = "idle"
    /\ event = "none"
    /\ selected = <<>>
    /\ lastSelect = NoEntry

\* the closure of newDateParser was not called yet
NoDateCall == [called |-> FALSE]

ParserIdle ==
    /\ parserT = 0
    /\ dateCall = NoDateCall
    /\ nparses = 0

\* no line wrapper was made
WrapperIdle ==
    /\ softLimit = 0
    /\ input = <<>>
    /\ body = <<>>
    /\ lines = <<>>
    /\ wpc = "idle"

\* the closure of newFeedItemCreator was not called yet
NoItemCall == [called |-> FALSE]

CreatorIdle ==
    /\ creator = [feed |-> Nil, t |-> 0]
    /\ itemCall = NoItemCall
    /\ nitems = 0

\* tview.NewList()
NewList == [items |-> <<>>, currentItem |-> 0]

PipelineIdle ==
    /\ feeds = <<>>
    /\ fi = 0
    /\ ii = 0
    /\ createdAt = 0
    /\ gpc = "idle"
    /\ mode = "none"
    /\ list = NewList
    /\ listIndex = 0
    /\ currentPosition = 0
    /\ pending = <<>>
    /\ cpc = "idle"
    /\ arrived = <<>>
    /\ handled = 0

----------------------------------------------------------------------------
(* SpecFilters: items are presented, one after another, to one list of      *)
(* filters built once (as the tests do with a single closure, and as       *)
(* GetFeedItems does with the list of cmd/main.go).                        *)

FilterSet ==
    {[kind |-> "Deduplicate", n |-> 0, maxAge |-> 0]}
    \cup {[kind |-> "OldestItem", n |-> 0, maxAge |-> d] : d \in Durations}
    \cup {[kind |-> k, n |-> n, maxAge |-> 0] :
              k \in {"MaxItemsPerChannel", "MaxItems"}, n \in 0..MaxN}

\* cmd/main.go: []rss.Filter{rss.OldestItem(maxAge), rss.Deduplicate(), itemFilter(maxItems)}
MainFilters ==
    {<<o, d, c>> : o \in {f \in FilterSet : f.kind = "OldestItem" /\ f.maxAge = 0},
                   d \in {f \in FilterSet : f.kind = "Deduplicate"},
                   c \in {f \in FilterSet : f.kind \in {"MaxItemsPerChannel", "MaxItems"}
                                            /\ f.n = 1}}

\* another order a caller of the library can build
OtherFilters ==
    {<<c, d>> : c \in {f \in FilterSet : f.kind = "MaxItems" /\ f.n = 1},
                d \in {f \in FilterSet : f.kind = "Deduplicate"}}

FilterLists == {<<f>> : f \in FilterSet} \cup MainFilters \cup OtherFilters

FeedItems ==
    {FeedItem(<<"t">>, p, l, c, c) : p \in Times, l \in LinkSeqs, c \in ChannelNames}

\* What the claims need to know of the calls a closure has received: how many,
\* how many per channel, how many it let pass, the links of the items it was
\* called with and of those it accepted, the channels of the items it rejected.
NoHistory ==
    [calls |-> 0, passed |-> 0, byChan |-> [c \in ChannelNames |-> 0],
     seen |-> {}, acc |-> {}, rejected |-> {}]

NoCall == [item |-> ZeroItem, at |-> 0, results |-> <<>>, ok |-> FALSE]

\* the history of closure k after it was called with item and returned ok
Record(h, item, ok) ==
    [calls |-> h.calls + 1,
     passed |-> IF ok THEN h.passed + 1 ELSE h.passed,
     byChan |-> [h.byChan EXCEPT ![item.Channel] = @ + 1],
     seen |-> h.seen \cup Range(item.Links),
     acc |-> IF ok THEN h.acc \cup Range(item.Links) ELSE h.acc,
     rejected |-> IF ok THEN h.rejected ELSE h.rejected \cup {item.Channel}]

InitFilters ==
    /\ PipelineIdle
    /\ CreatorIdle
    /\ ParserIdle
    /\ WrapperIdle
    /\ StoreIdle
    /\ AppIdle
    /\ BatchIdle
    /\ StreamIdle
    /\ DisplayIdle
    /\ now = MaxTime - 1
    /\ filters \in FilterLists
    /\ fstate = [k \in 1..Len(filters) |-> NewState]
    /\ presented = [k \in 1..Len(filters) |-> NoHistory]
    /\ last = NoCall
    /\ ncalls = 0

\* the clock advances
Tick ==
    /\ now < MaxTime
    /\ now' = now + 1
    /\ UNCHANGED <<fvars, bvars, svars, dvars, pvars>>

\* one item goes through the filter list (feeds.go:223-227, Filters.Apply)
Present ==
    /\ ncalls < MaxCalls
    /\ \E item \in FeedItems :
          LET r == ApplyFilters(filters, fstate, now, item)
          IN  /\ fstate' = r.sts
              /\ last' = [item |-> item, at |-> now, results |-> r.results, ok |-> r.ok]
              /\ presented' = [k \in 1..Len(filters) |->
                                 IF k <= Len(r.results)
                                 THEN Record(presented[k], item, r.results[k])
                                 ELSE presented[k]]
    /\ ncalls' = ncalls + 1
    /\ UNCHANGED <<now, pvars, filters, bvars, svars, dvars>>

NextFilters == Tick \/ Present

SpecFilters == InitFilters /\ [][NextFilters]_vars

\* the closures of the list that the last item reached
Called == {k \in 1..Len(filters) : ncalls > 0 /\ k <= Len(last.results)}

CalledOf(kind) == {k \in Called : filters[k].kind = kind}

----------------------------------------------------------------------------
\* C1: for the items presented to one Deduplicate() closure, an item is rejected
\* whenever it shares a link with an item the closure accepted before, and is
\* accepted whenever none of its links occurred in any item presented before.
C1_DeduplicateContract ==
    [][ncalls' = ncalls + 1 =>
          \A k \in 1..Len(filters) :
              (filters[k].kind = "Deduplicate" /\ k <= Len(last'.results)) =>
                  LET links == Range(last'.item.Links)
                  IN  /\ (links \cap presented[k].acc # {}) => ~last'.results[k]
                      /\ (links \cap presented[k].seen = {}) => last'.results[k]]_vars

\* C2: the k-th call of a MaxItems(n) closure, n > 0, returns true iff k <= n,
\* whatever the item; every call of MaxItems(0) returns true.
C2_MaxItemsFirstN ==
    \A k \in CalledOf("MaxItems") :
        IF filters[k].n = 0
        THEN last.results[k]
        ELSE last.results[k] <=> (presented[k].calls <= filters[k].n)

\* the third item presented to MaxItems(2) is rejected, after two of another content
C2_Witness ==
    /\ filters = <<[kind |-> "MaxItems", n |-> 2, maxAge |-> 0]>>
    /\ presented[1].calls = 3
    /\ presented[1].passed = 2
    /\ Cardinality(presented[1].seen) = 2
    /\ ~last.ok

\* C3: a MaxItemsPerChannel(n) closure, n > 0, accepts an item iff fewer than n
\* items of the same channel were presented to it before, channel by channel;
\* MaxItemsPerChannel(0) accepts every item.
C3_MaxItemsPerChannelFirstN ==
    \A k \in CalledOf("MaxItemsPerChannel") :
        IF filters[k].n = 0
        THEN last.results[k]
        ELSE last.results[k] <=>
                 (presented[k].byChan[last.item.Channel] - 1 < filters[k].n)

\* channels interleaved under MaxItemsPerChannel(1): "1", "2", then "1" again is
\* rejected although only two items were accepted in all
C3_Witness ==
    /\ filters = <<[kind |-> "MaxItemsPerChannel", n |-> 1, maxAge |-> 0]>>
    /\ presented[1].byChan["1"] = 2
    /\ presented[1].byChan["2"] = 1
    /\ presented[1].passed = 2
    /\ last.item.Channel = "1"
    /\ ~last.ok

\* C4: OldestItem(d) accepts an item iff now minus its publish time is at most d.
C4_OldestItemInclusive ==
    \A k \in CalledOf("OldestItem") :
        last.results[k] <=> (last.at - last.item.PublishTime <= filters[k].maxAge)

\* C5: the filter list accepts an item iff every filter returns true; the filters
\* are called left to right, each at most once, up to the first that returns
\* false; so a cap counts only, and a Deduplicate records only, the items that
\* all the filters before it accepted.
C5_ShortCircuit ==
    ncalls > 0 =>
        /\ Len(last.results) \in 1..Len(filters)
        /\ \A j \in 1..(Len(last.results) - 1) : last.results[j]
        /\ last.ok <=> (Len(last.results) = Len(filters)
                          /\ last.results[Len(last.results)])
        /\ ~last.ok => ~last.results[Len(last.results)]
        /\ \A k \in 1..Len(filters) :
              LET reached == IF k = 1 THEN ncalls ELSE presented[k - 1].passed
                  counted == IF filters[k].kind = "MaxItems"
                             THEN fstate[k].count
                             ELSE fstate[k].counts["1"] + fstate[k].counts["2"]
              IN  /\ presented[k].calls = reached
                  /\ (filters[k].kind \in {"MaxItems", "MaxItemsPerChannel"}
                        /\ filters[k].n > 0) => counted = reached
                  /\ filters[k].kind = "Deduplicate" =>
                        fstate[k].urls \subseteq presented[k].seen

\* in the list of cmd/main.go, an item too old is rejected by OldestItem: its link
\* is not recorded and the cap has not counted it
C5_Witness ==
    /\ Len(filters) = 3
    /\ filters[3].kind = "MaxItems"
    /\ ncalls = 2
    /\ last.results = <<FALSE>>
    /\ last.item.Links = <<"b">>
    /\ "b" \notin fstate[2].urls
    /\ fstate[3].count = 1

\* wg.Add(len(urls)); results := make([]*Feed, len(urls))
InitBatch ==
    /\ PipelineIdle
    /\ CreatorIdle
    /\ ParserIdle
    /\ WrapperIdle
    /\ StoreIdle
    /\ AppIdle
    /\ now = MaxTime - 1
    /\ filters = <<>> /\ fstate = <<>> /\ presented = <<>>
    /\ last = NoCall /\ ncalls = 0
    /\ StreamIdle
    /\ DisplayIdle
    /\ urlsB \in UNION {[1..n -> URLs] : n \in 0..MaxURLs}
    /\ spawned = 0
    /\ taskpc = [i \in 1..Len(urlsB) |-> "none"]
    /\ result = [i \in 1..Len(urlsB) |-> Nil]
    /\ served = [i \in 1..Len(urlsB) |-> "none"]
    /\ order = <<>>
    /\ wg = Len(urlsB)
    /\ results = [i \in 1..Len(urlsB) |-> Nil]
    /\ mainpc = "loop"
    /\ ret = <<>>

\* A plausible slip: results are put in the slice in the order they arrive
StoreResultInArrivalOrder(res, i, r, ord) ==
    LET at == CHOOSE k \in 1..Len(ord) : ord[k] = i
    IN  [res EXCEPT ![at] = r]

\* results[i] = result
StoreResult(res, i, r, ord) == [res EXCEPT ![i] = r]

\* one iteration of the loop over urls: go func() {...}()
Spawn ==
    /\ mainpc = "loop"
    /\ spawned < Len(urlsB)
    /\ spawned' = spawned + 1
    /\ taskpc' = [taskpc EXCEPT ![spawned + 1] = "fetch"]
    /\ UNCHANGED <<now, pvars, fvars, dvars, svars, urlsB, result, served, order, wg, results, mainpc, ret>>

\* the loop is over
LoopEnd ==
    /\ mainpc = "loop"
    /\ spawned = Len(urlsB)
    /\ mainpc' = "wait"
    /\ UNCHANGED <<now, pvars, fvars, dvars, svars, urlsB, spawned, taskpc, result, served, order, wg,
                   results, ret>>

\* result, err := getFeed(url)
TaskFetch(i) ==
    /\ taskpc[i] = "fetch"
    /\ \E resp \in FetchErrors \cup BatchDocs :
          LET got == getFeed(urlsB[i], resp)
          IN  /\ result' = [result EXCEPT ![i] = got.feed]
              /\ served' = [served EXCEPT ![i] =
                               IF got.err = "nil" THEN resp ELSE "failed"]
    /\ order' = Append(order, i)
    /\ taskpc' = [taskpc EXCEPT ![i] = "store"]
    /\ UNCHANGED <<now, pvars, fvars, dvars, svars, urlsB, spawned, wg, results, mainpc, ret>>

\* results[i] = result
TaskStore(i) ==
    /\ taskpc[i] = "store"
    /\ results' = StoreResult(results, i, result[i], order)
    /\ taskpc' = [taskpc EXCEPT ![i] = "defer"]
    /\ UNCHANGED <<now, pvars, fvars, dvars, svars, urlsB, spawned, result, served, order, wg, mainpc, ret>>

\* defer wg.Done()
TaskDone(i) ==
    /\ taskpc[i] = "defer"
    /\ wg' = wg - 1
    /\ taskpc' = [taskpc EXCEPT ![i] = "exit"]
    /\ UNCHANGED <<now, pvars, fvars, dvars, svars, urlsB, spawned, result, served, order, results, mainpc,
                   ret>>

\* A plausible slip: the join is left out
WaitDoneAtOnce(w) == TRUE

\* wg.Wait() returns
WaitDone(w) == w = 0

\* wg.Wait(); return results
WaitReturn ==
    /\ mainpc = "wait"
    /\ WaitDone(wg)
    /\ ret' = results
    /\ mainpc' = "returned"
    /\ UNCHANGED <<now, pvars, fvars, dvars, svars, urlsB, spawned, taskpc, result, served, order, wg,
                   results>>

NextBatch ==
    \/ Spawn
    \/ LoopEnd
    \/ \E i \in 1..Len(urlsB) : TaskFetch(i)
    \/ \E i \in 1..Len(urlsB) : TaskStore(i)
    \/ \E i \in 1..Len(urlsB) : TaskDone(i)
    \/ WaitReturn

SpecBatch == InitBatch /\ [][NextBatch]_vars

----------------------------------------------------------------------------
\* C6: RefreshFeeds over n URLs returns n entries; entry i is the feed fetched
\* from URL i, or nil iff that fetch or its decoding failed, whatever the order
\* in which the fetches complete.
C6_BatchIndexAligned ==
    mainpc = "returned" =>
        /\ Len(ret) = Len(urlsB)
        /\ \A i \in 1..Len(urlsB) :
              ret[i] = IF served[i] = "failed"
                       THEN Nil
                       ELSE Feed(urlsB[i], served[i])

\* three URLs, the second fails, and the fetches completed in another order than
\* the input's
C6_Witness ==
    /\ mainpc = "returned"
    /\ Len(urlsB) = 3
    /\ order = <<3, 1, 2>>
    /\ served[2] = "failed"
    /\ ret[1] # Nil /\ ret[2] = Nil /\ ret[3] # Nil
    /\ urlsB[1] # urlsB[3]

----------------------------------------------------------------------------
(* SpecStream: the fan-out and fan-in of main (main.go:360-378)             *)

\* Largest number of URLs read from the feeds file.
MaxStreamURLs == 3

\* wg.Add(len(urls)); results := make(chan *Feed, len(urls)); errs likewise
InitStream ==
    /\ PipelineIdle
    /\ CreatorIdle
    /\ ParserIdle
    /\ WrapperIdle
    /\ StoreIdle
    /\ AppIdle
    /\ now = MaxTime - 1
    /\ filters = <<>> /\ fstate = <<>> /\ presented = <<>>
    /\ last = NoCall /\ ncalls = 0
    /\ DisplayIdle
    /\ urlsB \in UNION {[1..n -> URLs] : n \in 0..MaxStreamURLs}
    /\ spawned = 0
    /\ taskpc = [i \in 1..Len(urlsB) |-> "none"]
    /\ result = [i \in 1..Len(urlsB) |-> Nil]
    /\ served = [i \in 1..Len(urlsB) |-> "none"]
    /\ order = <<>>
    /\ wg = Len(urlsB)
    /\ results = <<>>
    /\ mainpc = "loop"
    /\ ret = <<>>
    /\ resultsCh = MakeChan(Len(urlsB))
    /\ errsCh = MakeChan(Len(urlsB))
    /\ sent = <<>>
    /\ pushed = <<>>
    /\ received = <<>>
    /\ panic = "none"

\* ch <- v on a channel with room; on a closed channel the send panics
CanSend(ch) == ch.closed \/ Len(ch.buf) < ch.cap

Send(ch, v) == [ch EXCEPT !.buf = Append(@, v)]

\* one iteration of the loop over urls: go func() {...}()
SSpawn ==
    /\ panic = "none"
    /\ mainpc = "loop"
    /\ spawned < Len(urlsB)
    /\ spawned' = spawned + 1
    /\ taskpc' = [taskpc EXCEPT ![spawned + 1] = "fetch"]
    /\ UNCHANGED <<now, pvars, fvars, dvars, svars, urlsB, result, served, order, wg, results,
                   mainpc, ret>>

SLoopEnd ==
    /\ panic = "none"
    /\ mainpc = "loop"
    /\ spawned = Len(urlsB)
    /\ mainpc' = "wait"
    /\ UNCHANGED <<now, pvars, fvars, dvars, svars, urlsB, spawned, taskpc, result, served, order,
                   wg, results, ret>>

\* result, err := getFeed(url)
SFetch(i) ==
    /\ panic = "none"
    /\ taskpc[i] = "fetch"
    /\ \E resp \in FetchErrors \cup BatchDocs :
          LET got == getFeed(urlsB[i], resp)
          IN  /\ result' = [result EXCEPT ![i] = got.feed]
              /\ served' = [served EXCEPT ![i] =
                               IF got.err = "nil" THEN resp ELSE "failed"]
    /\ taskpc' = [taskpc EXCEPT ![i] = "errs"]
    /\ UNCHANGED <<now, pvars, fvars, dvars, svars, urlsB, spawned, order, wg, results, mainpc, ret>>

\* errs <- err
SSendErr(i) ==
    /\ panic = "none"
    /\ taskpc[i] = "errs"
    /\ CanSend(errsCh)
    /\ IF errsCh.closed
       THEN /\ panic' = "send on closed channel"
            /\ UNCHANGED <<errsCh, taskpc>>
       ELSE /\ errsCh' = Send(errsCh, served[i] = "failed")
            /\ taskpc' = [taskpc EXCEPT ![i] = "results"]
            /\ UNCHANGED panic
    /\ UNCHANGED <<now, pvars, fvars, dvars, urlsB, spawned, result, served, order, wg, results,
                   mainpc, ret, resultsCh, sent, pushed, received>>

\* results <- result
SSendResult(i) ==
    /\ panic = "none"
    /\ taskpc[i] = "results"
    /\ CanSend(resultsCh)
    /\ IF resultsCh.closed
       THEN /\ panic' = "send on closed channel"
            /\ UNCHANGED <<resultsCh, taskpc, sent, pushed>>
       ELSE /\ resultsCh' = Send(resultsCh, result[i])
            /\ sent' = Append(sent, i)
            /\ pushed' = Append(pushed, result[i])
            /\ taskpc' = [taskpc EXCEPT ![i] = "defer"]
            /\ UNCHANGED panic
    /\ UNCHANGED <<now, pvars, fvars, dvars, urlsB, spawned, result, served, order, wg, results,
                   mainpc, ret, errsCh, received>>

\* defer wg.Done()
SDone(i) ==
    /\ panic = "none"
    /\ taskpc[i] = "defer"
    /\ wg' = wg - 1
    /\ taskpc' = [taskpc EXCEPT ![i] = "exit"]
    /\ UNCHANGED <<now, pvars, fvars, dvars, svars, urlsB, spawned, result, served, order, results,
                   mainpc, ret>>

\* wg.Wait()
SWait ==
    /\ panic = "none"
    /\ mainpc = "wait"
    /\ WaitDone(wg)
    /\ mainpc' = "close results"
    /\ UNCHANGED <<now, pvars, fvars, dvars, svars, urlsB, spawned, taskpc, result, served, order,
                   wg, results, ret>>

\* close(results)
SCloseResults ==
    /\ panic = "none"
    /\ mainpc = "close results"
    /\ IF resultsCh.closed
       THEN panic' = "close of closed channel" /\ UNCHANGED <<resultsCh, mainpc>>
       ELSE /\ resultsCh' = [resultsCh EXCEPT !.closed = TRUE]
            /\ mainpc' = "close errs"
            /\ UNCHANGED panic
    /\ UNCHANGED <<now, pvars, fvars, dvars, bvars_but_mainpc, errsCh, sent, pushed, received>>

\* close(errs)
SCloseErrs ==
    /\ panic = "none"
    /\ mainpc = "close errs"
    /\ IF errsCh.closed
       THEN panic' = "close of closed channel" /\ UNCHANGED <<errsCh, mainpc>>
       ELSE /\ errsCh' = [errsCh EXCEPT !.closed = TRUE]
            /\ mainpc' = "range"
            /\ UNCHANGED panic
    /\ UNCHANGED <<now, pvars, fvars, dvars, bvars_but_mainpc, resultsCh, sent, pushed, received>>

\* for result := range results: one receive, or the end of the loop when the
\* channel is closed and drained
SRange ==
    /\ panic = "none"
    /\ mainpc = "range"
    /\ IF resultsCh.buf # <<>>
       THEN /\ received' = Append(received, Head(resultsCh.buf))
            /\ resultsCh' = [resultsCh EXCEPT !.buf = Tail(@)]
            /\ UNCHANGED mainpc
       ELSE /\ resultsCh.closed
            /\ mainpc' = "end"
            /\ UNCHANGED <<resultsCh, received>>
    /\ UNCHANGED <<now, pvars, fvars, dvars, bvars_but_mainpc, errsCh, sent, pushed, panic>>

NextStream ==
    \/ SSpawn
    \/ SLoopEnd
    \/ \E i \in 1..Len(urlsB) : SFetch(i)
    \/ \E i \in 1..Len(urlsB) : SSendErr(i)
    \/ \E i \in 1..Len(urlsB) : SSendResult(i)
    \/ \E i \in 1..Len(urlsB) : SDone(i)
    \/ SWait
    \/ SCloseResults
    \/ SCloseErrs
    \/ SRange

SpecStream == InitStream /\ [][NextStream]_vars

----------------------------------------------------------------------------
\* C8: the results reach the shared channel in the order in which the goroutines
\* deliver them, each goroutine's result once; the channel is closed once, only
\* after every goroutine has finished, and nothing is sent on it afterwards (a
\* send on a closed channel, or a second close, would panic); the receiver gets
\* what was sent, in that order.
C8_StreamClosedAfterAll ==
    /\ panic = "none"
    /\ resultsCh.closed => \A i \in 1..Len(urlsB) : taskpc[i] = "exit"
    /\ resultsCh.closed <=> mainpc \in {"close errs", "range", "end"}
    /\ Len(pushed) = Len(sent)
    /\ \A k \in 1..Len(sent) : pushed[k] = result[sent[k]]
    /\ \A k, l \in 1..Len(sent) : sent[k] = sent[l] => k = l
    /\ resultsCh.closed => Range(sent) = 1..Len(urlsB)
    /\ received \o resultsCh.buf = pushed
    /\ mainpc = "end" => received = pushed /\ Len(received) = Len(urlsB)

\* three fetches delivered in another order than the input's, one of them failed,
\* and all received after the close
C8_Witness ==
    /\ mainpc = "end"
    /\ sent = <<3, 1, 2>>
    /\ received[1] # Nil /\ received[2] = Nil /\ received[3] # Nil
    /\ resultsCh.closed

----------------------------------------------------------------------------
(* Display modes (feeds.go:112-140)                                         *)

\* colour codes (feeds.go:23-25)
reset == "\\033[0m"
green == "\\033[32m"

\* colourize (feeds.go:357-359): fmt.Sprintf("%s%s%s", c, text, reset)
colourize(text, c) == <<c>> \o text \o <<reset>>

\* the less function of ReverseChronological (feeds.go:113-115)
Less(s, i, j) == After(s[i].PublishTime, s[j].PublishTime)

Swap(s, i, j) == [s EXCEPT ![i] = s[j], ![j] = s[i]]

\* sort.Slice of the Go release go.mod names (1.18) on a slice of at most 12
\* elements: quickSort_func skips its partitioning loop, makes one ShellSort
\* pass with gap 6 and ends with an insertion sort. Indices are 1-based here.
ShellGap == 6

RECURSIVE ShellPass(_, _)
\* for i := a + 6; i < b; i++ { if less(i, i-6) { swap(i, i-6) } }
ShellPass(s, i) ==
    IF i > Len(s) THEN s
    ELSE ShellPass(IF Less(s, i, i - ShellGap) THEN Swap(s, i, i - ShellGap) ELSE s,
                   i + 1)

RECURSIVE SiftDown(_, _)
\* for j := i; j > a && less(j, j-1); j-- { swap(j, j-1) }
SiftDown(s, j) ==
    IF j > 1 /\ Less(s, j, j - 1) THEN SiftDown(Swap(s, j, j - 1), j - 1) ELSE s

RECURSIVE InsertionSort(_, _)
\* for i := a + 1; i < b; i++ { ... }
InsertionSort(s, i) ==
    IF i > Len(s) THEN s ELSE InsertionSort(SiftDown(s, i), i + 1)

SortSlice(s) ==
    IF Len(s) > 1 THEN InsertionSort(ShellPass(s, 1 + ShellGap), 2) ELSE s

\* ReverseChronological sorts the slice it is given, in place, and returns it
ReverseChronological(items) == SortSlice(items)

\* itemsByFeed[feed]
ItemsOfFeed(items, feed) == SelectSeq(items, LAMBDA it : it.Feed = feed)

FeedsOf(items) == {items[k].Feed : k \in 1..Len(items)}

\* the title-only item of a feed
TitleCard(feed) == FeedItem(colourize(<<feed>>, green), 0, <<>>, "", "")

RECURSIVE GroupedLoop(_, _, _)
\* the range loop over itemsByFeed, taking the keys in the order keys
GroupedLoop(items, keys, k) ==
    IF k > Len(keys) THEN <<>>
    ELSE <<ZeroItem, TitleCard(keys[k])>>
             \o ReverseChronological(ItemsOfFeed(items, keys[k]))
             \o GroupedLoop(items, keys, k + 1)

\* A plausible slip: the groups are emitted without sorting them
GroupedUnsorted(items, keys) ==
    IF keys = <<>> THEN <<>>
    ELSE <<ZeroItem, TitleCard(keys[1])>> \o ItemsOfFeed(items, keys[1])
             \o (IF Len(keys) > 1
                 THEN <<ZeroItem, TitleCard(keys[2])>> \o ItemsOfFeed(items, keys[2])
                 ELSE <<>>)
             \o (IF Len(keys) > 2
                 THEN <<ZeroItem, TitleCard(keys[3])>> \o ItemsOfFeed(items, keys[3])
                 ELSE <<>>)

\* Grouped, when the map iteration yields the feeds in the order keys
Grouped(items, keys) == GroupedLoop(items, keys, 1)

\* the orders in which a range over a map with these keys can yield them
KeyOrders(S) ==
    {f \in [1..Cardinality(S) -> S] : \A i, j \in 1..Cardinality(S) : f[i] = f[j] => i = j}

----------------------------------------------------------------------------
(* SpecDisplay: a slice of items is passed to one display mode              *)

\* Longest slice passed to ReverseChronological: one more than the gap of the
\* ShellSort pass, the shortest slice that pass touches.
MaxSortLen == ShellGap + 1

\* Longest slice of items of several feeds passed to a display mode.
MaxGroupedLen == 4

\* Latest publish time of a displayed item (the earliest is 1).
MaxPub == 2

FeedNames == {"A", "B"}

\* item k of a slice has the title "k", so that equal items stay apart
DisplayInputs ==
    UNION {{[k \in 1..n |-> FeedItem(<<ToString(k)>>, t[k], <<"a">>, "A", "A")] :
               t \in [1..n -> 1..MaxPub]} : n \in 0..MaxSortLen}
    \cup
    UNION {{[k \in 1..n |-> FeedItem(<<ToString(k)>>, t[k], <<"a">>, f[k], f[k])] :
               t \in [1..n -> 1..MaxPub], f \in [1..n -> FeedNames]} :
           n \in 0..MaxGroupedLen}

InitDisplay ==
    /\ PipelineIdle
    /\ CreatorIdle
    /\ ParserIdle
    /\ WrapperIdle
    /\ StoreIdle
    /\ AppIdle
    /\ now = MaxTime - 1
    /\ filters = <<>> /\ fstate = <<>> /\ presented = <<>>
    /\ last = NoCall /\ ncalls = 0
    /\ BatchIdle
    /\ StreamIdle
    /\ feedItems \in DisplayInputs
    /\ feedItems0 = feedItems
    /\ displayed = <<>>
    /\ dpc = "start"

\* displayMode(feedItems) with displayMode = ReverseChronological
CallReverseChronological ==
    /\ dpc = "start"
    /\ feedItems' = ReverseChronological(feedItems)
    /\ displayed' = feedItems'
    /\ dpc' = "ReverseChronological"
    /\ UNCHANGED <<now, pvars, fvars, bvars, svars, feedItems0>>

\* displayMode(feedItems) with displayMode = Grouped
CallGrouped ==
    /\ dpc = "start"
    /\ \E keys \in KeyOrders(FeedsOf(feedItems)) :
          displayed' = Grouped(feedItems, keys)
    /\ dpc' = "Grouped"
    /\ UNCHANGED <<now, pvars, fvars, bvars, svars, feedItems, feedItems0>>

NextDisplay == CallReverseChronological \/ CallGrouped

SpecDisplay == InitDisplay /\ [][NextDisplay]_vars

\* the positions of out hold the items of inp, each once
IsPermutation(out, inp) ==
    /\ Len(out) = Len(inp)
    /\ \A k \in 1..Len(inp) : \E p \in 1..Len(out) : out[p] = inp[k]
    /\ \A p, q \in 1..Len(out) : out[p] = out[q] => p = q

IsDescending(out) ==
    \A p, q \in 1..Len(out) : p < q => out[p].PublishTime >= out[q].PublishTime

\* the position at which out holds item x
PositionIn(out, x) == CHOOSE p \in 1..Len(out) : out[p] = x

----------------------------------------------------------------------------
\* C9: ReverseChronological returns a permutation of its input in descending
\* order of publish time, and items of equal publish time keep the relative
\* order they had in the input.
C9_StableSort ==
    dpc = "ReverseChronological" =>
        /\ IsPermutation(displayed, feedItems0)
        /\ IsDescending(displayed)
        /\ \A i, j \in 1..Len(feedItems0) :
              (i < j /\ feedItems0[i].PublishTime = feedItems0[j].PublishTime) =>
                  PositionIn(displayed, feedItems0[i])
                      < PositionIn(displayed, feedItems0[j])

RECURSIVE BlockStart(_, _, _)
\* where the block of the k-th feed starts when the blocks come in the order keys
BlockStart(inp, keys, k) ==
    IF k = 1 THEN 1
    ELSE BlockStart(inp, keys, k - 1) + 2 + Len(ItemsOfFeed(inp, keys[k - 1]))

\* out is made of one block per feed of inp, in some order of the feeds: an
\* empty item, the card of the feed, then the items of inp of that feed, each
\* once, in descending order of publish time
IsGrouped(out, inp, Card(_)) ==
    /\ Len(out) = Len(inp) + 2 * Cardinality(FeedsOf(inp))
    /\ \E keys \in KeyOrders(FeedsOf(inp)) :
          \A k \in 1..Len(keys) :
              LET at == BlockStart(inp, keys, k)
                  own == ItemsOfFeed(inp, keys[k])
                  blk == SubSeq(out, at + 2, at + 1 + Len(own))
              IN  /\ out[at] = ZeroItem
                  /\ out[at + 1] = Card(keys[k])
                  /\ IsPermutation(blk, own)
                  /\ IsDescending(blk)

\* a title-only item whose title is the feed name itself
PlainCard(feed) == FeedItem(<<feed>>, 0, <<>>, "", "")

\* a title-only item whose title is the feed name between the colour code for
\* green and the code that resets the colour
GreenCard(feed) == FeedItem(<<green, feed, reset>>, 0, <<>>, "", "")

----------------------------------------------------------------------------
(* Unpacking a feed (feeds.go:289-355). The strings of a feed document are  *)
(* kept as the sequences of their pieces, "" being <<>>, so that what is    *)
(* cut from them and put before them stays visible.                        *)

\* feeds.go:37-39
paywalls == << <<"https://www.ft.com">> >>

\* strings.HasPrefix(s, p)
HasPrefix(s, p) == Len(p) <= Len(s) /\ SubSeq(s, 1, Len(p)) = p

\* the pieces of a link that are its query, and pieces url.Parse rejects
QueryPieces == {"?utm=1"}
BadPieces == {"%zz"}

\* Item (feeds.go:85-94)
Item(title, link, pubDate, guid, comments) ==
    [Title |-> title, Link |-> link, PubDate |-> pubDate, GUID |-> guid,
     Comments |-> comments]

\* feeds.go:35: time.RFC1123, time.RFC1123Z and the layout with a one-digit day
dateFormats == <<"RFC1123", "RFC1123Z", "Mon, 2 Jan 2006 15:04:05 MST">>

\* A pubDate string: the instant t written in a layout, text that is no date
\* in any layout, or "".
RawDate(layout, t) == [layout |-> layout, t |-> t]
EmptyDate == RawDate("", 0)
BadDate == RawDate("no date", 0)

\* time.Parse(format, rawDate): a date written in RFC1123 has a two-digit day,
\* which the layout with the one-digit day reads as well.
Parse(format, rawDate) ==
    IF \/ rawDate.layout = format
       \/ format = dateFormats[3] /\ rawDate.layout = dateFormats[1]
    THEN [t |-> rawDate.t, err |-> "nil"]
    ELSE [t |-> 0, err |-> "parsing time"]

\* the loop without its break: what the last format gives
ParseLoopNoBreak(rawDate, k) == Parse(dateFormats[Len(dateFormats)], rawDate)

RECURSIVE ParseLoop(_, _)
\* the loop over dateFormats (feeds.go:347-352), from format k on
ParseLoop(rawDate, k) ==
    LET r == Parse(dateFormats[k], rawDate)
    IN  IF r.err = "nil" \/ k = Len(dateFormats) THEN r
        ELSE ParseLoop(rawDate, k + 1)

\* the closure of newDateParser(t)
parseDate(t, rawDate) ==
    IF rawDate = EmptyDate THEN [t |-> t, err |-> "nil"]
    ELSE ParseLoop(rawDate, 1)

hasPaywall(feed) == \E k \in 1..Len(paywalls) : HasPrefix(feed.URL, paywalls[k])

\* the closure of linkFormatter(feed)
formatLink(feed, item) ==
    LET link == IF item.Link = <<>> THEN item.GUID ELSE item.Link
    IN  IF \E k \in 1..Len(link) : link[k] \in BadPieces
        THEN <<"parse ">> \o link \o <<": invalid URL escape">>
        ELSE LET u == SelectSeq(link, LAMBDA piece : piece \notin QueryPieces)
             IN  IF hasPaywall(feed) THEN <<"https://archive.is/">> \o u ELSE u

\* The creator with the unconditional append: the comments link is added
\* whether it is empty or not
newFeedItemAlwaysComments(feed, t, item) ==
    LET links == <<formatLink(feed, item), item.Comments>>
        pubTime == parseDate(t, item.PubDate)
    IN  IF pubTime.err # "nil" THEN [item |-> ZeroItem, err |-> pubTime.err]
        ELSE [item |-> FeedItem(item.Title, pubTime.t, links,
                                feed.RSS.Channel.Title, feed.RSS.Channel.Title),
              err |-> "nil"]

\* the closure of newFeedItemCreator(feed), whose date parser holds the clock
\* reading t
newFeedItem(feed, t, item) ==
    LET formatted == <<formatLink(feed, item)>>
        links == IF item.Comments # <<>> THEN Append(formatted, item.Comments)
                 ELSE formatted
        pubTime == parseDate(t, item.PubDate)
    IN  IF pubTime.err # "nil" THEN [item |-> ZeroItem, err |-> pubTime.err]
        ELSE [item |-> FeedItem(item.Title, pubTime.t, links,
                                feed.RSS.Channel.Title, feed.RSS.Channel.Title),
              err |-> "nil"]

\* What one pass of the item loop works on: the captured variables of the
\* filters, the history kept for the claims, and the slice appended to.
Pipe(sts, hist, lst, n, out) ==
    [sts |-> sts, presented |-> hist, last |-> lst, ncalls |-> n, out |-> out]

\* A plausible slip: the item is put in front of the slice
AppendFeedItemInFront(out, item) == <<item>> \o out

\* feedItems = append(feedItems, feedItem) (feeds.go:228)
AppendFeedItem(out, item) == Append(out, item)

\* The item loop without its `continue` on an error: the empty FeedItem that
\* came with the error goes to the filters
UnpackItemNoContinue(feed, t, item, fs, p, n) ==
    LET c == newFeedItem(feed, t, item)
        r == ApplyFilters(fs, p.sts, n, c.item)
    IN  Pipe(r.sts,
             [k \in 1..Len(fs) |->
                 IF k <= Len(r.results)
                 THEN Record(p.presented[k], c.item, r.results[k])
                 ELSE p.presented[k]],
             [item |-> c.item, at |-> n, results |-> r.results, ok |-> r.ok],
             p.ncalls + 1,
             IF r.ok THEN Append(p.out, c.item) ELSE p.out)

\* One pass of the item loop (feeds.go:217-229) for raw item `item` of `feed`:
\* t is the clock reading of the feed's date parser, n the clock now.
UnpackItem(feed, t, item, fs, p, n) ==
    LET c == newFeedItem(feed, t, item)
    IN  IF c.err # "nil" THEN p
        ELSE LET r == ApplyFilters(fs, p.sts, n, c.item)
             IN  Pipe(r.sts,
                      [k \in 1..Len(fs) |->
                          IF k <= Len(r.results)
                          THEN Record(p.presented[k], c.item, r.results[k])
                          ELSE p.presented[k]],
                      [item |-> c.item, at |-> n, results |-> r.results, ok |-> r.ok],
                      p.ncalls + 1,
                      IF r.ok THEN AppendFeedItem(p.out, c.item) ELSE p.out)

RECURSIVE UnpackLoop(_, _, _, _, _)
\* the item loop from item k on, the clock standing at n
UnpackLoop(feed, k, fs, p, n) ==
    IF k > Len(feed.RSS.Channel.Items) THEN p
    ELSE UnpackLoop(feed, k + 1, fs,
                    UnpackItem(feed, n, feed.RSS.Channel.Items[k], fs, p, n), n)

\* UnpackFeed(feed, filters...): the items of one feed, through the filters
UnpackFeed(feed, fs, p, n) ==
    UnpackLoop(feed, 1, fs, [p EXCEPT !.out = <<>>], n)

----------------------------------------------------------------------------
(* The list of the interactive display (app.go:78-88, colour.go)            *)

\* colour codes (feeds.go:24-31)
red == "\\033[31m"
yellow == "\\033[33m"
blue == "\\033[34m"
purple == "\\033[35m"
cyan == "\\033[36m"
gray == "\\033[37m"
white == "\\033[97m"

\* colourizeInteractive (colour.go:88-109): a colour the switch does not name
\* gives the empty tag
colourizeInteractive(text, c) ==
    LET b == CASE c = red -> "red"
               [] c = green -> "green"
               [] c = yellow -> "yellow"
               [] c = blue -> "blue"
               [] c = purple -> "purple"
               [] c = cyan -> "cyan"
               [] c = gray -> "gray"
               [] c = white -> "white"
               [] OTHER -> ""
    IN  <<"[", b, "]">> \o text \o <<"[white]">>

\* outputTimeLayout names the day only: this many instants fall on one day
InstantsPerDay == 2

\* t.Format(outputTimeLayout)
FormatDate(t) == ToString(t \div InstantsPerDay)

\* formatFeedInteractive (colour.go:44-82): the date unless it is the zero time,
\* a tab, the title (coloured when the item has no links), a newline
formatFeedInteractive(item) ==
    LET date == IF item.PublishTime # 0
                THEN colourizeInteractive(<<FormatDate(item.PublishTime)>>, yellow)
                     \o <<":">>
                ELSE <<>>
        title == IF Len(item.Links) = 0 /\ Len(item.Title) # 0
                 THEN colourizeInteractive(item.Title, green)
                 ELSE item.Title
    IN  date \o <<"\t">> \o title \o <<"\n">>

\* A plausible slip: every entry is inserted at the head of the list
InsertItemFirst(l, index, mainText, secondaryText) ==
    [items |-> <<[MainText |-> mainText, SecondaryText |-> secondaryText]>> \o l.items,
     currentItem |-> IF l.currentItem < Len(l.items) THEN l.currentItem + 1
                     ELSE l.currentItem]

\* list.InsertItem(index, mainText, secondaryText, 0, nil) of tview; indices
\* count from 0 as in the code
InsertItem(l, index, mainText, secondaryText) ==
    LET len == Len(l.items)
        shifted == IF index < 0 THEN len + index + 1 ELSE index
        at == IF shifted < 0 THEN 0 ELSE IF shifted > len THEN len ELSE shifted
        entry == [MainText |-> mainText, SecondaryText |-> secondaryText]
    IN  [items |-> SubSeq(l.items, 1, at) \o <<entry>> \o SubSeq(l.items, at + 1, len),
         currentItem |-> IF l.currentItem < len /\ l.currentItem >= at
                         THEN l.currentItem + 1 ELSE l.currentItem]

\* list.SetCurrentItem(index) of tview
SetCurrentItem(l, index) ==
    LET len == Len(l.items)
        wrapped == IF index < 0 THEN len + index ELSE index
        capped == IF wrapped >= len THEN len - 1 ELSE wrapped
    IN  [l EXCEPT !.currentItem = IF capped < 0 THEN 0 ELSE capped]

----------------------------------------------------------------------------
(* SpecPipeline: the feeds that were fetched go through GetFeedItems, or,   *)
(* in interactive mode, arrive one by one at the consumer of RunApp.        *)

\* Largest number of feeds passed to GetFeedItems or received by the consumer.
MaxFeeds == 3

PaywalledURL == <<"https://www.ft.com", "/rss">>
PlainURL == <<"https://go.dev", "/feed">>

\* RSS{Channel: Channel{Title: title, Items: items}}
Document(title, items) == [Channel |-> [Title |-> title, Items |-> items]]

\* the items the hosts serve: one with a date and a tracking query, one without
\* a date whose link is its GUID and which has a comments page, one whose date
\* cannot be read
ItemDated ==
    Item(<<"x">>, <<"a", "?utm=1">>, RawDate(dateFormats[1], MaxTime - 1), <<>>, <<>>)
ItemUndated == Item(<<"y">>, <<>>, EmptyDate, <<"b">>, <<"c">>)
ItemBadDate == Item(<<"z">>, <<"a">>, BadDate, <<>>, <<>>)

PoolItems == {<<>>, <<ItemDated, ItemUndated>>, <<ItemBadDate, ItemDated>>}

PoolFeeds ==
    {Feed(u[1], Document(u[2], items)) :
        u \in {<<PaywalledURL, "1">>, <<PlainURL, "2">>}, items \in PoolItems}

\* no filters, the lists of cmd/main.go that SpecFilters has, and one that
\* rejects nothing but duplicates
PipelineFilterLists ==
    {<<>>} \cup MainFilters
    \cup {<<[kind |-> "OldestItem", n |-> 0, maxAge |-> maxDuration],
            [kind |-> "Deduplicate", n |-> 0, maxAge |-> 0],
            [kind |-> "MaxItemsPerChannel", n |-> 0, maxAge |-> 0]>>}

InitPipeline ==
    /\ StoreIdle
    /\ CreatorIdle
    /\ ParserIdle
    /\ WrapperIdle
    /\ AppIdle
    /\ now = MaxTime - 1
    /\ filters \in PipelineFilterLists
    /\ fstate = [k \in 1..Len(filters) |-> NewState]
    /\ presented = [k \in 1..Len(filters) |-> NoHistory]
    /\ last = NoCall
    /\ ncalls = 0
    /\ BatchIdle
    /\ StreamIdle
    /\ DisplayIdle
    /\ \/ \* feedItems := rss.GetFeedItems(feeds, filters...)
          /\ feeds \in UNION {[1..n -> PoolFeeds \cup {Nil}] : n \in 0..MaxFeeds}
          /\ fi = 1 /\ ii = 0 /\ createdAt = 0 /\ gpc = "feeds"
          /\ mode = "none" /\ list = NewList /\ listIndex = 0
          /\ currentPosition = 0 /\ pending = <<>> /\ cpc = "idle"
          /\ arrived = <<>> /\ handled = 0
       \/ \* interactiveDisplay(feedsCh, displayMode, rss.WithFilters(filters...))
          /\ feeds = <<>> /\ fi = 0 /\ ii = 0 /\ createdAt = 0 /\ gpc = "idle"
          /\ mode \in {"ReverseChronological", "Grouped"}
          /\ list = NewList /\ listIndex = 0
          /\ currentPosition = 0 /\ pending = <<>> /\ cpc = "range"
          /\ arrived = <<>> /\ handled = 0

\* feed == nil (feeds.go:212)
SkipsFeed(feed) == feed = Nil

\* `for _, feed := range feeds`: the loop ends, skips a nil feed, or makes the
\* item creator of the feed (feeds.go:211-215); linkFormatter reads feed.URL
GRangeFeeds ==
    /\ gpc = "feeds"
    /\ IF fi > Len(feeds)
       THEN gpc' = "done" /\ UNCHANGED <<fi, ii, createdAt, panic>>
       ELSE IF SkipsFeed(feeds[fi])
       THEN fi' = fi + 1 /\ UNCHANGED <<gpc, ii, createdAt, panic>>
       ELSE IF feeds[fi].nil
       THEN /\ panic' = "nil pointer dereference"
            /\ gpc' = "panic"
            /\ UNCHANGED <<fi, ii, createdAt>>
       ELSE /\ createdAt' = now
            /\ ii' = 1
            /\ gpc' = "items"
            /\ UNCHANGED <<fi, panic>>
    /\ UNCHANGED <<now, stvars, uvars, qvars, wvars, nvars, fvars, bvars, dvars, cvars, feeds,
                   resultsCh, errsCh, sent, pushed, received>>

\* `for _, item := range feed.Channel.Items`: the loop ends, or one item is
\* made, filtered and appended (feeds.go:217-229)
GRangeItems ==
    /\ gpc = "items"
    /\ IF ii > Len(feeds[fi].RSS.Channel.Items)
       THEN /\ fi' = fi + 1
            /\ gpc' = "feeds"
            /\ UNCHANGED <<ii, fvars, feedItems>>
       ELSE LET p == UnpackItem(feeds[fi], createdAt, feeds[fi].RSS.Channel.Items[ii],
                                filters, Pipe(fstate, presented, last, ncalls, feedItems),
                                now)
            IN  /\ fstate' = p.sts
                /\ presented' = p.presented
                /\ last' = p.last
                /\ ncalls' = p.ncalls
                /\ feedItems' = p.out
                /\ ii' = ii + 1
                /\ UNCHANGED <<fi, gpc, filters>>
    /\ UNCHANGED <<now, stvars, uvars, qvars, wvars, nvars, bvars, svars, cvars, feeds, createdAt, feedItems0, displayed, dpc>>

\* feed == nil (app.go:65)
ConsumerSkipsNothing(feed) == FALSE

ConsumerSkips(feed) == feed = Nil

\* `for feed := range feeds` receives a feed (app.go:64-76): a nil feed is
\* skipped; otherwise the current item is read, the feed is unpacked and the
\* display mode orders its items. cmd/main.go passes no display options.
CReceiveFeed(feed) ==
    /\ arrived' = Append(arrived, feed)
    /\ IF ConsumerSkips(feed)
       THEN UNCHANGED <<fvars, currentPosition, pending, cpc, panic>>
       ELSE IF feed.nil
       THEN /\ panic' = "nil pointer dereference"
            /\ cpc' = "panic"
            /\ UNCHANGED <<fvars, currentPosition, pending>>
       ELSE LET p == UnpackFeed(feed, filters,
                                Pipe(fstate, presented, last, ncalls, <<>>), now)
            IN  /\ currentPosition' = list.currentItem
                /\ fstate' = p.sts
                /\ presented' = p.presented
                /\ last' = p.last
                /\ ncalls' = p.ncalls
                /\ IF mode = "Grouped"
                   THEN \E keys \in KeyOrders(FeedsOf(p.out)) :
                           pending' = Grouped(p.out, keys)
                   ELSE pending' = ReverseChronological(p.out)
                /\ cpc' = IF pending' = <<>> THEN "draw" ELSE "insert"
                /\ UNCHANGED <<filters, panic>>

\* the consumer receives one of the feeds of pool
CReceive(pool) ==
    /\ cpc = "range"
    /\ Len(arrived) < MaxFeeds
    /\ \E feed \in pool : CReceiveFeed(feed)
    /\ UNCHANGED <<now, stvars, uvars, qvars, wvars, nvars, bvars, dvars, gvars, mode, list, listIndex, handled,
                   resultsCh, errsCh, sent, pushed, received>>

\* what the channel can carry: a feed of the pool, or nil
ChannelFeeds == PoolFeeds \cup {Nil}

\* the consumer of SpecPipeline receives any feed of the pool, or nil
CRange == CReceive(ChannelFeeds)

\* the channel is closed and drained: the loop ends
CClosed ==
    /\ cpc = "range"
    /\ cpc' = "exit"
    /\ UNCHANGED <<now, stvars, uvars, qvars, wvars, nvars, fvars, bvars, svars, dvars, gvars, mode, list, listIndex,
                   currentPosition, pending, arrived, handled>>

\* list.InsertItem(i, formatFeedInteractive(item), link, 0, nil); i++ (app.go:78-85)
CInsert ==
    /\ cpc = "insert"
    /\ LET item == Head(pending)
           link == IF Len(item.Links) > 0 THEN item.Links[1] ELSE <<>>
       IN  list' = InsertItem(list, listIndex, formatFeedInteractive(item), link)
    /\ listIndex' = listIndex + 1
    /\ pending' = Tail(pending)
    /\ cpc' = IF pending' = <<>> THEN "draw" ELSE "insert"
    /\ UNCHANGED <<now, stvars, uvars, qvars, wvars, nvars, fvars, bvars, svars, dvars, gvars, mode, currentPosition,
                   arrived, handled>>

\* app.Draw() (app.go:86)
CDraw ==
    /\ cpc = "draw"
    /\ cpc' = "restore"
    /\ UNCHANGED <<now, stvars, uvars, qvars, wvars, nvars, fvars, bvars, svars, dvars, gvars, mode, list, listIndex,
                   currentPosition, pending, arrived, handled>>

\* list = list.SetCurrentItem(currentPosition) (app.go:88)
CSetCurrentItem ==
    /\ cpc = "restore"
    /\ list' = SetCurrentItem(list, currentPosition)
    /\ handled' = handled + 1
    /\ cpc' = "range"
    /\ UNCHANGED <<now, stvars, uvars, qvars, wvars, nvars, fvars, bvars, svars, dvars, gvars, mode, listIndex,
                   currentPosition, pending, arrived>>

NextPipeline ==
    \/ Tick
    \/ GRangeFeeds
    \/ GRangeItems
    \/ CRange
    \/ CClosed
    \/ CInsert
    \/ CDraw
    \/ CSetCurrentItem

SpecPipeline == InitPipeline /\ [][NextPipeline]_vars

\* the feeds of s that are not nil, in their order
RemoveNil(s) == SelectSeq(s, LAMBDA feed : feed # Nil)

RECURSIVE UnpackAll(_, _, _, _, _)
\* the items of a sequence of feeds none of which is nil, from feed k on
UnpackAll(s, k, fs, p, n) ==
    IF k > Len(s) THEN p
    ELSE UnpackAll(s, k + 1, fs, UnpackLoop(s[k], 1, fs, p, n), n)

FreshPipe(fs) ==
    Pipe([k \in 1..Len(fs) |-> NewState], [k \in 1..Len(fs) |-> NoHistory],
         NoCall, 0, <<>>)

\* C7, what holds in every state: no nil feed ends the program; when the clock
\* stood still during GetFeedItems, it returned exactly the items it returns
\* for the same feeds without the nil entries; whenever the consumer is between
\* two feeds, every feed received that was not nil went through the whole loop
\* body and the list holds what was inserted.
C7_NilFeedSkippedState ==
    /\ panic = "none"
    /\ (gpc = "done" /\ now = MaxTime - 1) =>
          feedItems = UnpackAll(RemoveNil(feeds), 1, filters, FreshPipe(filters), now).out
    /\ cpc \in {"range", "exit"} =>
          /\ handled = Cardinality({k \in 1..Len(arrived) : arrived[k] # Nil})
          /\ Len(list.items) = listIndex

\* C7, what holds of every step: when GetFeedItems is at a nil feed, it moves to
\* the next feed and changes neither the items gathered nor what the filters
\* hold; when the consumer receives a nil feed, the list, the insertion index
\* and what the filters hold stay as they are and it waits for the next feed.
C7_NilFeedSkippedStep ==
    /\ (/\ gpc = "feeds"
        /\ fi <= Len(feeds)
        /\ feeds[fi] = Nil
        /\ <<gvars, fvars, feedItems>>' # <<gvars, fvars, feedItems>>)
       => (/\ fi' = fi + 1
           /\ gpc' = "feeds"
           /\ feedItems' = feedItems
           /\ fvars' = fvars)
    /\ (/\ cpc = "range"
        /\ Len(arrived') = Len(arrived) + 1
        /\ arrived'[Len(arrived')] = Nil)
       => (/\ list' = list
           /\ listIndex' = listIndex
           /\ pending' = pending
           /\ fvars' = fvars
           /\ cpc' = "range")

\* C7: a nil feed contributes no items and never aborts processing.
\* GetFeedItems over feeds with nil entries returns the items it returns over
\* the same feeds with the nil entries removed, and the stream consumer, on
\* receiving a nil feed, leaves the list unchanged and goes on with the next.
C7_NilFeedSkipped == []C7_NilFeedSkippedState /\ [][C7_NilFeedSkippedStep]_vars

\* GetFeedItems returned, a nil feed stood between two feeds of different
\* channels, and items of both are in the result
C7_Witness ==
    /\ gpc = "done"
    /\ now = MaxTime - 1
    /\ Len(feeds) = 3
    /\ feeds[1] # Nil /\ feeds[2] = Nil /\ feeds[3] # Nil
    /\ \E j, k \in 1..Len(feedItems) :
          /\ feedItems[j].Channel = feeds[1].RSS.Channel.Title
          /\ feedItems[k].Channel = feeds[3].RSS.Channel.Title
          /\ feedItems[j].Channel # feedItems[k].Channel

----------------------------------------------------------------------------
(* Store, Load and merge (colour.go:119-202)                                *)

\* the key of hashItems: item.Title + item.PubDate. Both are strings kept as
\* the sequences of their characters.
ItemKey(item) == item.Title \o item.PubDate

\* hashItems: the map from key to item; a later item replaces an earlier one
\* of the same key
hashItems(items) ==
    [key \in {ItemKey(items[k]) : k \in 1..Len(items)} |->
        items[CHOOSE k \in 1..Len(items) :
                /\ ItemKey(items[k]) = key
                /\ \A j \in (k + 1)..Len(items) : ItemKey(items[j]) # key]]

RECURSIVE MergeLoop(_, _, _, _, _)
\* the range over itemsB (colour.go:183-189), which yields the keys of the
\* map in the order of `keys`, from key k on
MergeLoop(itemsA, itemsB, keys, k, toAppend) ==
    IF k > Len(keys) THEN toAppend
    ELSE IF keys[k] \in DOMAIN itemsA
    THEN MergeLoop(itemsA, itemsB, keys, k + 1, toAppend)
    ELSE MergeLoop(itemsA, itemsB, keys, k + 1, Append(toAppend, itemsB[keys[k]]))

\* A plausible slip: every item of b is appended
mergeAppendAll(a, b, keys) ==
    [a EXCEPT !.RSS.Channel.Items = @ \o b.RSS.Channel.Items]

\* merge(a, b): a with the items of b appended whose key a does not have
merge(a, b, keys) ==
    LET itemsA == hashItems(a.RSS.Channel.Items)
        itemsB == hashItems(b.RSS.Channel.Items)
    IN  [a EXCEPT !.RSS.Channel.Items = @ \o MergeLoop(itemsA, itemsB, keys, 1, <<>>)]

\* the orders in which merge(a, b) can range over the items of b
MergeOrders(b) == KeyOrders(DOMAIN hashItems(b.RSS.Channel.Items))

\* xml.Marshal(feed.RSS): the document without the URL of the feed
Marshal(rss) == [exists |-> TRUE, rss |-> rss]

\* Load(filename): xml.Unmarshal into a Feed, whose URL stays ""
Load(file) == Feed(<<>>, file.rss)

\* path.Join(folder, title): the folder itself when the title is ""
Folder == "folder"
Join(title) == IF title = "" THEN Folder ELSE title

\* Store(feed, folder), the range of merge yielding the keys as `keys` has them
Store(fs, feed, keys) ==
    LET filename == Join(feed.RSS.Channel.Title)
    IN  IF filename = Folder
        THEN [files |-> fs, err |-> "read folder: is a directory"]
        ELSE LET merged == IF fs[filename].exists
                           THEN merge(Load(fs[filename]), feed, keys)
                           ELSE feed
             IN  [files |-> [fs EXCEPT ![filename] = Marshal(merged.RSS)], err |-> "nil"]

\* Most items of a feed passed to Store.
MaxStoreItems == 2

\* items of which the first two have the same key
StoreItems ==
    {Item(<<"a">>, <<"l1">>, <<"b">>, <<>>, <<>>),
     Item(<<"a", "b">>, <<"l2">>, <<>>, <<>>, <<>>),
     Item(<<"c">>, <<"l3">>, <<"d">>, <<>>, <<>>)}

StoreFeeds ==
    {Feed(PlainURL, Document(title, items)) :
        title \in FileNames \cup {""},
        items \in UNION {[1..n -> StoreItems] : n \in 0..MaxStoreItems}}

\* Most calls of Store in one run.
MaxStores == 3

InitStore ==
    /\ PipelineIdle
    /\ CreatorIdle
    /\ ParserIdle
    /\ WrapperIdle
    /\ AppIdle
    /\ now = MaxTime - 1
    /\ filters = <<>> /\ fstate = <<>> /\ presented = <<>>
    /\ last = NoCall /\ ncalls = 0
    /\ BatchIdle
    /\ StreamIdle
    /\ DisplayIdle
    /\ files = [name \in FileNames |-> NoFile]
    /\ lastStore = [feed |-> Nil, err |-> "nil", again |-> FALSE]
    /\ nstores = 0

CallStore ==
    /\ nstores < MaxStores
    /\ \E feed \in StoreFeeds :
          \E keys \in MergeOrders(feed) :
             LET r == Store(files, feed, keys)
             IN  /\ files' = r.files
                 /\ lastStore' = [feed |-> feed, err |-> r.err,
                                  again |-> nstores > 0 /\ lastStore.err = "nil"
                                            /\ lastStore.feed = feed]
    /\ nstores' = nstores + 1
    /\ UNCHANGED <<now, uvars, qvars, wvars, nvars, fvars, bvars, svars, dvars, gvars, cvars>>

NextStore == CallStore

SpecStore == InitStore /\ [][NextStore]_vars

\* the items of a feed
ItemsOf(feed) == feed.RSS.Channel.Items

\* C11, of every stored document x: merging it with itself gives its items in
\* their order, and merging it with a feed b a second time adds nothing to
\* the first merge, whatever the orders of the map ranges; and a call of Store
\* with the feed of the call before, which succeeded, leaves the stored
\* document as it was.
C11_MergeIdempotentState ==
    /\ \A name \in FileNames :
          files[name].exists =>
             LET x == Load(files[name])
             IN  /\ \A keys \in MergeOrders(x) : ItemsOf(merge(x, x, keys)) = ItemsOf(x)
                 /\ \A b \in StoreFeeds :
                       \A o1, o2 \in MergeOrders(b) :
                          merge(merge(x, b, o1), b, o2) = merge(x, b, o1)
    /\ lastStore.again => lastStore.err = "nil"

C11_MergeIdempotentStep ==
    (nstores' = nstores + 1 /\ lastStore'.again) => files' = files

\* C11: merging a stored feed against itself adds no items; merge(merge(a, b), b)
\* has the items of merge(a, b); storing a feed twice leaves the stored items
\* unchanged.
C11_MergeIdempotent == []C11_MergeIdempotentState /\ [][C11_MergeIdempotentStep]_vars

\* a feed was stored over a document of which it had some keys and lacked
\* others, and then stored again
C11_Witness ==
    /\ nstores = 3
    /\ lastStore.again
    /\ Len(ItemsOf(lastStore.feed)) = 2
    /\ Len(ItemsOf(Load(files["1"]))) = 3

----------------------------------------------------------------------------
(* SpecApp: RunApp (app.go:32-185). Three threads run: the event loop of    *)
(* the application, which calls the input capture, the input handler of    *)
(* the focused primitive and the selected function; the consumer of the    *)
(* feeds channel; and the goroutine that starts the browser.               *)

\* the keys the user presses
Keys == {"Down", "Up", "Enter", "Escape", "Left", "Right", "CtrlC"}

\* A plausible slip: the border of the list is highlighted whatever has the focus
toggleBorderList(f) == [list |-> "green", text |-> "gray"]

\* toggleBorder (app.go:92-100) when the focus is f
toggleBorder(f) ==
    IF f = "list" THEN [list |-> "green", text |-> "gray"]
    ELSE [list |-> "gray", text |-> "green"]

\* the text the reader mode of the browser gives for a url
Extract(url) == <<"text of ">> \o url

\* what b.NewPage(secondary) can meet: the page loads, the browser gives no
\* page, or page.Goto fails
NewPageResults == {"page", "closed", "timeout"}

\* how the errors NewPage returns begin (app.go:286, 290)
ErrorPrefixes == {"could not create page: ", "could not goto: "}

\* b.NewPage(url) (app.go:283-337): the text of the page, or the error of the
\* browser wrapped (app.go:284-291); the error of a navigation names the
\* address navigated to
NewPage(url, res) ==
    CASE res = "closed" ->
            [page |-> <<>>, err |-> <<"could not create page: ", "browser closed">>]
      [] res = "timeout" ->
            [page |-> <<>>,
             err |-> <<"could not goto: ", "Timeout exceeded, navigating to ">> \o url]
      [] OTHER -> [page |-> Extract(url), err |-> <<>>]

\* pieces of a string that fmt reads as a verb, and what it writes for each
\* when no argument is left: in "%20b" the verb is b with the width 20
VerbPieces == {"%20b"}
Missing(piece) == "%!b(MISSING)"

\* fmt.Fprintf(w, format) with no arguments: what is written to w
Fprintf(format) ==
    [k \in 1..Len(format) |->
        IF format[k] \in VerbPieces THEN Missing(format[k]) ELSE format[k]]

\* an item whose link has an escaped space in its path
ItemEscaped ==
    Item(<<"x">>, <<"a", "%20b">>, RawDate(dateFormats[1], MaxTime - 1), <<>>, <<>>)

\* Most feeds the consumer receives in this specification.
MaxAppFeeds == 2

\* the feeds that arrive in this specification
AppFeeds ==
    {Feed(PaywalledURL, Document("1", <<ItemDated, ItemUndated>>)),
     Feed(PlainURL, Document("2", <<ItemBadDate, ItemEscaped>>)),
     Nil}

InitApp ==
    /\ StoreIdle
    /\ CreatorIdle
    /\ ParserIdle
    /\ WrapperIdle
    /\ now = MaxTime - 1
    /\ filters = <<>> /\ fstate = <<>> /\ presented = <<>>
    /\ last = NoCall /\ ncalls = 0
    /\ BatchIdle
    /\ StreamIdle
    /\ DisplayIdle
    /\ feeds = <<>> /\ fi = 0 /\ ii = 0 /\ createdAt = 0 /\ gpc = "idle"
    /\ mode \in {"ReverseChronological", "Grouped"}
    /\ list = NewList /\ listIndex = 0
    /\ currentPosition = 0 /\ pending = <<>> /\ cpc = "range"
    /\ arrived = <<>> /\ handled = 0
    /\ focus = "list"
    /\ textView = <<>>
    /\ listBorder = "green"
    /\ textBorder = "gray"
    /\ bpc = "start"
    /\ exited = "no"
    /\ uipc = "idle"
    /\ event = "none"
    /\ selected = <<>>
    /\ lastSelect = NoEntry

\* the consumer, while the program runs; the feed of one URL arrives once
AReceive ==
    /\ exited = "no"
    /\ Len(arrived) < MaxAppFeeds
    /\ CReceive({feed \in AppFeeds : feed \in Range(arrived) => feed = Nil})

AClosed == exited = "no" /\ CClosed

AInsert == exited = "no" /\ CInsert

ADraw == exited = "no" /\ CDraw

ASetCurrentItem == exited = "no" /\ CSetCurrentItem

\* the goroutine of app.go:111-119: NewBrowser succeeds and b is set, or it
\* fails and the program exits
BInit ==
    /\ exited = "no"
    /\ bpc = "start"
    /\ \/ bpc' = "done" /\ UNCHANGED exited
       \/ bpc' = "failed" /\ exited' = "os.Exit(1)"
    /\ UNCHANGED <<now, fvars, bvars, svars, dvars, gvars, cvars, stvars, qvars, wvars, nvars,
                   focus, textView, listBorder, textBorder, uipc, event, selected,
                   lastSelect>>

\* A plausible slip: the capture does not look at KeyLeft
CaptureFocusNoLeft(k, f) == IF k = "Right" THEN "textView" ELSE f

\* What has the focus after the input capture was called with key k while f
\* had it (app.go:146-157): KeyRight gives it to the text view, KeyLeft to
\* listFlex, which hands it to the list
CaptureFocus(k, f) ==
    IF k = "Right" THEN "textView" ELSE IF k = "Left" THEN "list" ELSE f

\* The event loop takes a key and calls the input capture (app.go:142-182).
\* A key the capture returns goes to the input handler of the focused
\* primitive: that of the text view changes nothing kept here, except that
\* Enter and Escape call its done function (app.go:101-104); that of the list
\* is the step UHandle.
UPress(k) ==
    /\ event' = k
    /\ CASE k = "CtrlC" ->
              /\ exited' = "stopped"
              /\ UNCHANGED <<focus, listBorder, textBorder, uipc>>
         [] k = "Right" ->
              /\ IF focus # "textView"
                 THEN /\ focus' = CaptureFocus(k, focus)
                      /\ listBorder' = toggleBorder(focus').list
                      /\ textBorder' = toggleBorder(focus').text
                 ELSE UNCHANGED <<focus, listBorder, textBorder>>
              /\ UNCHANGED <<exited, uipc>>
         [] k = "Left" ->
              /\ focus' = CaptureFocus(k, focus)
              /\ listBorder' = toggleBorder(focus').list
              /\ textBorder' = toggleBorder(focus').text
              /\ UNCHANGED <<exited, uipc>>
         [] k = "Down" ->
              /\ uipc' = IF focus = "list" /\ Len(list.items) - 1 # list.currentItem
                         THEN "handle" ELSE "idle"
              /\ UNCHANGED <<exited, focus, listBorder, textBorder>>
         [] k = "Up" ->
              /\ uipc' = IF focus = "list" /\ list.currentItem # 0
                         THEN "handle" ELSE "idle"
              /\ UNCHANGED <<exited, focus, listBorder, textBorder>>
         [] k \in {"Enter", "Escape"} ->
              /\ IF focus = "list"
                 THEN uipc' = "handle" /\ UNCHANGED <<focus, listBorder, textBorder>>
                 ELSE /\ focus' = "list"
                      /\ listBorder' = toggleBorder("list").list
                      /\ textBorder' = toggleBorder("list").text
                      /\ UNCHANGED uipc
              /\ UNCHANGED exited

UKeyOf(keys) ==
    /\ exited = "no"
    /\ uipc = "idle"
    /\ \E k \in keys : UPress(k)
    /\ UNCHANGED <<now, fvars, bvars, svars, dvars, gvars, cvars, stvars, qvars, wvars, nvars,
                   textView, bpc, selected, lastSelect>>

\* the keys of SpecApp
UKey == UKeyOf(Keys)

\* secondary == "" (app.go:122-124)
SelectReturnsNever(secondary) == FALSE

SelectReturns(secondary) == secondary = <<>>

\* the cursor after the input handler of the list moved it: a new List wraps
\* around
WrapAround(index, len) ==
    IF index < 0 THEN len - 1 ELSE IF index >= len THEN 0 ELSE index

\* The input handler of the list (tview): nothing on an empty list or on
\* Escape; Down and Up move the cursor; Enter calls the selected function
\* (app.go:121-127) with the current item.
UHandle ==
    /\ exited = "no"
    /\ uipc = "handle"
    /\ IF Len(list.items) = 0 \/ event = "Escape"
       THEN uipc' = "idle" /\ UNCHANGED <<list, selected, lastSelect>>
       ELSE IF event = "Enter"
       THEN LET item == list.items[list.currentItem + 1]
            IN  /\ lastSelect' = item
                /\ IF SelectReturns(item.SecondaryText)
                   THEN uipc' = "idle" /\ UNCHANGED selected
                   ELSE uipc' = "open" /\ selected' = item.SecondaryText
                /\ UNCHANGED list
       ELSE /\ list' = [list EXCEPT !.currentItem =
                           WrapAround(IF event = "Down" THEN @ + 1 ELSE @ - 1,
                                      Len(list.items))]
            /\ uipc' = "idle"
            /\ UNCHANGED <<selected, lastSelect>>
    /\ UNCHANGED <<now, fvars, bvars, svars, dvars, gvars, stvars, qvars, wvars, nvars,
                   mode, listIndex, currentPosition, pending, cpc, arrived, handled,
                   focus, textView, listBorder, textBorder, bpc, exited, event>>

\* A plausible slip: the text view is not cleared
WriteDetailNoClear(text, link, page) == text \o link \o <<"\n", "\n">> \o page

\* textView.Clear(), fmt.Fprintln(textView, secondary), fmt.Fprintf(textView,
\* "\n") and the page or the error written after them (app.go:128-136)
WriteDetail(text, link, page) == link \o <<"\n", "\n">> \o page

\* What the event loop can find in b at `if b == nil` (app.go:125). The
\* goroutine of app.go:111-119 writes b and the event loop reads it with
\* nothing ordering the two but wg.Wait(): until the event loop has returned
\* from wg.Wait() once, the read is a data race, and it finds nil, the
\* pointer with the fields of the Browser written, or the pointer with the
\* fields not yet visible.
BReads(pc) == IF pc = "synced" THEN {"ready"} ELSE {"nil", "ready", "unready"}

\* The rest of the selected function (app.go:125-139): with b found nil it
\* waits in wg.Wait() until the browser is started; the text view is
\* cleared, the link and an empty line are written, and the page of the
\* link, or the error of NewPage, after them; with a page the focus moves to
\* the text view. A Browser whose fields are not visible makes b.NewPage
\* dereference nil.
UOpen ==
    /\ exited = "no"
    /\ uipc = "open"
    /\ bpc \in {"done", "synced"}
    /\ \E seen \in BReads(bpc) :
          IF seen = "unready"
          THEN /\ exited' = "panic"
               /\ textView' = WriteDetail(textView, selected, <<>>)
               /\ UNCHANGED <<focus, listBorder, textBorder, bpc, uipc>>
          ELSE /\ bpc' = IF seen = "nil" THEN "synced" ELSE bpc
               /\ \E res \in NewPageResults :
                     IF NewPage(selected, res).err # <<>>
                     THEN /\ textView' = WriteDetail(textView, selected,
                                                     Fprintf(NewPage(selected, res).err))
                          /\ UNCHANGED <<focus, listBorder, textBorder>>
                     ELSE /\ textView' = WriteDetail(textView, selected,
                                                     NewPage(selected, res).page)
                          /\ focus' = "textView"
                          /\ listBorder' = toggleBorder("textView").list
                          /\ textBorder' = toggleBorder("textView").text
               /\ uipc' = "idle"
               /\ UNCHANGED exited
    /\ UNCHANGED <<now, fvars, bvars, svars, dvars, gvars, cvars, stvars, qvars, wvars, nvars,
                   event, selected, lastSelect>>

NextApp ==
    \/ AReceive
    \/ AClosed
    \/ AInsert
    \/ ADraw
    \/ ASetCurrentItem
    \/ BInit
    \/ UKey
    \/ UHandle
    \/ UOpen

SpecApp == InitApp /\ [][NextApp]_vars

\* the entry the cursor of the list is on
CurrentEntry == list.items[list.currentItem + 1]

\* the step in which the input handler of the list handles Enter on an entry
SelectStep ==
    /\ uipc = "handle"
    /\ uipc' # uipc
    /\ event = "Enter"
    /\ Len(list.items) > 0

\* C12, of every step: a select on an entry with an empty secondary text ends
\* the handling of the key with the focus on the list and with the detail
\* pane, the borders and the link given to the browser as they were.
C12_SelectOnCardStep ==
    (SelectStep /\ CurrentEntry.SecondaryText = <<>>)
    => (/\ uipc' = "idle"
        /\ focus = "list" /\ focus' = "list"
        /\ textView' = textView
        /\ listBorder' = listBorder /\ textBorder' = textBorder
        /\ selected' = selected)

\* C12, of every state: the browser is asked for a page only for a non-empty
\* secondary text of an entry, and what the detail pane shows begins with
\* the non-empty secondary text of an entry of the list.
C12_SelectOnCardState ==
    /\ uipc = "open" => (selected # <<>> /\ lastSelect.SecondaryText = selected)
    /\ textView # <<>> =>
          \E k \in 1..Len(list.items) :
             /\ list.items[k].SecondaryText # <<>>
             /\ HasPrefix(textView, list.items[k].SecondaryText \o <<"\n">>)

\* C12: a select on an entry whose secondary text is empty (a separator or a
\* title card) is a no-op, and no such entry is ever opened as an article.
C12_SelectOnCardNoOp == []C12_SelectOnCardState /\ [][C12_SelectOnCardStep]_vars

\* an article was opened, the user came back to the list and selected a title
\* card: the detail pane still shows the article
C12_Witness ==
    /\ uipc = "idle"
    /\ event = "Enter"
    /\ focus = "list"
    /\ lastSelect.SecondaryText = <<>>
    /\ "green" \in Range(lastSelect.MainText)
    /\ textView # <<>>

\* the step in which the selected function ends with a page from the browser
OpenedStep ==
    /\ uipc = "open"
    /\ uipc' = "idle"
    /\ ErrorPrefixes \cap Range(textView') = {}

\* C13 as stated: after a select on an entry with a link, when the extraction
\* succeeds, the detail pane holds the text extracted for that link, the focus
\* is on the detail pane and its border is highlighted.
C13_DetailIsExtractedText ==
    [][OpenedStep =>
          /\ textView' = Extract(lastSelect.SecondaryText)
          /\ focus' = "textView"
          /\ textBorder' = "green"]_vars

\* C13, amended: the detail pane holds the link of the entry, an empty line,
\* and the text extracted for that link, in place of what it held; the focus
\* is on the detail pane, whose border is highlighted while that of the list
\* is not.
C13_DetailIsLinkAndText ==
    [][OpenedStep =>
          /\ lastSelect.SecondaryText # <<>>
          /\ textView' = lastSelect.SecondaryText \o <<"\n", "\n">>
                         \o Extract(lastSelect.SecondaryText)
          /\ focus = "list"
          /\ focus' = "textView"
          /\ textBorder' = "green"
          /\ listBorder' = "gray"]_vars

\* a second article was opened after a first one
C13_Witness ==
    /\ uipc = "idle"
    /\ event = "Enter"
    /\ focus = "textView"
    /\ textBorder = "green"
    /\ lastSelect.SecondaryText = <<"https://archive.is/", "b">>
    /\ textView = lastSelect.SecondaryText \o <<"\n", "\n">>
                  \o Extract(lastSelect.SecondaryText)
    /\ list.currentItem > 0

\* C14: while the list has the focus, Down with the cursor on the last item
\* and Up with the cursor on the first item are swallowed, and no Down or Up
\* takes the cursor from the last item to the first or from the first to the
\* last: the handling of Down never moves the cursor up, nor that of Up down.
C14_NoWraparound ==
    [][/\ (uipc = "idle" /\ uipc' = "handle" /\ event' = "Down")
             => list.currentItem # Len(list.items) - 1
       /\ (uipc = "idle" /\ uipc' = "handle" /\ event' = "Up")
             => list.currentItem # 0
       /\ (uipc = "handle" /\ uipc' = "idle" /\ event = "Down")
             => list'.currentItem >= list.currentItem
       /\ (uipc = "handle" /\ uipc' = "idle" /\ event = "Up")
             => list'.currentItem <= list.currentItem]_vars

\* C15, of every step: the entries of the list stay where they are with what
\* they hold, and the insertion index does not decrease.
C15_AppendOnlyStep ==
    /\ Len(list'.items) >= Len(list.items)
    /\ \A k \in 1..Len(list.items) : list'.items[k] = list.items[k]
    /\ listIndex' >= listIndex

\* C15: inserts are append-only and the insertion index only advances; after
\* each batch the insertion index is the number of entries of the list.
C15_AppendOnly ==
    /\ [](cpc \in {"range", "exit"} => listIndex = Len(list.items))
    /\ [][C15_AppendOnlyStep]_vars

\* two batches were inserted and the user moved the cursor meanwhile
C15_Witness ==
    /\ cpc = "range"
    /\ handled = 2
    /\ Len(list.items) >= 4
    /\ listIndex = Len(list.items)
    /\ list.currentItem > 0

\* C16: when the consumer restores the position after a batch, the cursor is
\* left on the position the user had it on.
C16_PositionPreserved ==
    [][(cpc = "restore" /\ cpc' = "range") => list'.currentItem = list.currentItem]_vars

\* a step of the consumer goroutine
ConsumerStep == <<cpc, arrived, pending>>' # <<cpc, arrived, pending>>

\* C17: the consumer goroutine itself never changes the list or its cursor;
\* only the event loop does.
C17_ListMutatedByEventLoopOnly ==
    [][ConsumerStep => list' = list]_vars

\* C18: no error ends the program.
C18_NoErrorTerminates == exited # "os.Exit(1)"

----------------------------------------------------------------------------
(* SpecParser: the closure newDateParser(t) returns is called with pubDate  *)
(* strings (feeds.go:340-355)                                               *)

\* Number of calls of the closure in one run.
MaxParses == 2

\* the pubDate strings: every instant written in every layout of dateFormats,
\* "", and text that is no date
RawDates ==
    {RawDate(dateFormats[k], t) : k \in 1..Len(dateFormats), t \in Times}
    \cup {EmptyDate, BadDate}

\* parseDate := newDateParser(t)
InitParser ==
    /\ PipelineIdle
    /\ CreatorIdle
    /\ StoreIdle
    /\ AppIdle
    /\ now = 0
    /\ filters = <<>> /\ fstate = <<>> /\ presented = <<>>
    /\ last = NoCall /\ ncalls = 0
    /\ BatchIdle
    /\ StreamIdle
    /\ DisplayIdle
    /\ parserT \in Times
    /\ dateCall = NoDateCall
    /\ nparses = 0
    /\ WrapperIdle

\* pubTime, err := parseDate(rawDate)
CallParseDate ==
    /\ nparses < MaxParses
    /\ \E rawDate \in RawDates :
          dateCall' = [called |-> TRUE, rawDate |-> rawDate,
                       ret |-> parseDate(parserT, rawDate)]
    /\ nparses' = nparses + 1
    /\ UNCHANGED <<now, fvars, bvars, svars, dvars, gvars, cvars, stvars, uvars, nvars, wvars,
                   parserT>>

NextParser == CallParseDate

SpecParser == InitParser /\ [][NextParser]_vars

\* the formats that parse rawDate, by their place in dateFormats
ParsingFormats(rawDate) ==
    {k \in 1..Len(dateFormats) : Parse(dateFormats[k], rawDate).err = "nil"}

\* C19: the date parser returns the default timestamp without error when the
\* raw date string is empty; otherwise it returns what the first format of
\* dateFormats, in their order, that parses the string gives; it returns an
\* error iff the string is not empty and no format parses it.
C19_DateParserContract ==
    dateCall.called =>
       LET rawDate == dateCall.rawDate
           got == dateCall.ret
           ok == ParsingFormats(rawDate)
       IN  /\ rawDate = EmptyDate => got = [t |-> parserT, err |-> "nil"]
           /\ (rawDate # EmptyDate /\ ok # {}) =>
                 LET first == CHOOSE k \in ok : \A j \in ok : k <= j
                 IN  got = Parse(dateFormats[first], rawDate)
           /\ got.err # "nil" <=> (rawDate # EmptyDate /\ ok = {})

\* the closure was called twice; the string of the last call is not in the
\* first format, a later format parsed it, and the instant returned is the
\* one written, not the default
C19_Witness ==
    /\ nparses = 2
    /\ dateCall.called
    /\ dateCall.rawDate.layout = dateFormats[2]
    /\ ParsingFormats(dateCall.rawDate) = {2}
    /\ dateCall.ret.err = "nil"
    /\ dateCall.ret.t = dateCall.rawDate.t
    /\ dateCall.ret.t # parserT

----------------------------------------------------------------------------
(* Items whose date cannot be read, in GetFeedItems (feeds.go:215-229)      *)

\* the pubDate of the raw item is not empty and no format parses it
BadPubDate(item) ==
    item.PubDate # EmptyDate /\ ParsingFormats(item.PubDate) = {}

\* the raw items of the feeds that are not nil, by feed and place
RawItems ==
    UNION {{<<f, k>> : k \in 1..Len(feeds[f].RSS.Channel.Items)} :
              f \in {g \in 1..Len(feeds) : feeds[g] # Nil}}

ReadableItems ==
    {x \in RawItems : ~BadPubDate(feeds[x[1]].RSS.Channel.Items[x[2]])}

\* C20, what holds of every step of the item loop at a raw item: the loop goes
\* on with the next item of the same feed; an item whose date fails to parse
\* leaves what the filters hold, the count of items presented and the result
\* as they are; any other item is presented to the filters as the FeedItem
\* made of it, and is appended to the result iff every filter accepted it.
C20_BadDateDroppedStep ==
    (/\ gpc = "items"
     /\ ii <= Len(feeds[fi].RSS.Channel.Items)
     /\ ii' # ii)
    => LET item == feeds[fi].RSS.Channel.Items[ii]
       IN  /\ ii' = ii + 1 /\ fi' = fi /\ gpc' = "items"
           /\ BadPubDate(item) => fvars' = fvars /\ feedItems' = feedItems
           /\ ~BadPubDate(item) =>
                 /\ ncalls' = ncalls + 1
                 /\ last'.item = newFeedItem(feeds[fi], createdAt, item).item
                 /\ last'.item.Title = item.Title
                 /\ Len(filters) > 0 => presented'[1].calls = presented[1].calls + 1
                 /\ last'.ok = (/\ Len(last'.results) = Len(filters)
                                /\ \A k \in 1..Len(filters) : last'.results[k])
                 /\ feedItems' = IF last'.ok THEN Append(feedItems, last'.item)
                                 ELSE feedItems

\* C20, what holds when GetFeedItems has returned: the filters were called
\* with as many items as have a date that parses or no date, and the result
\* holds as many items as the filters accepted.
C20_BadDateDroppedState ==
    gpc = "done" =>
       /\ ncalls = Cardinality(ReadableItems)
       /\ Len(filters) = 0 => Len(feedItems) = ncalls
       /\ Len(filters) > 0 =>
             /\ presented[1].calls = ncalls
             /\ Len(feedItems) = presented[Len(filters)].passed
             /\ Len(feedItems) <= ncalls

\* C20: when unpacking a feed, a raw item whose publish date fails to parse is
\* dropped without stopping the unpacking of the remaining items and is never
\* presented to any filter (no dedupe link is recorded and no cap counter
\* advances for it); every other raw item is presented to the filters, and the
\* result contains exactly those items the filters accepted.
C20_BadDateDropped == []C20_BadDateDroppedState /\ [][C20_BadDateDroppedStep]_vars

\* GetFeedItems returned; the first feed began with an item whose date cannot
\* be read, whose link the next item has as well; a Deduplicate closure is
\* among the filters, and that next item is in the result
C20_Witness ==
    /\ gpc = "done"
    /\ Len(feeds) >= 1
    /\ feeds[1] # Nil
    /\ Len(feeds[1].RSS.Channel.Items) = 2
    /\ BadPubDate(feeds[1].RSS.Channel.Items[1])
    /\ ~BadPubDate(feeds[1].RSS.Channel.Items[2])
    /\ \E k \in 1..Len(filters) : filters[k].kind = "Deduplicate"
    /\ Len(feedItems) >= 1
    /\ feedItems[1].Title = feeds[1].RSS.Channel.Items[2].Title
    /\ feedItems[1].Links[1]
          = formatLink(feeds[1], feeds[1].RSS.Channel.Items[1])

----------------------------------------------------------------------------
(* SpecCreator: the closure newFeedItemCreator(feed) returns is called with *)
(* raw items (feeds.go:289-338)                                             *)

\* Number of calls of the closure in one run.
MaxItemCalls == 2

\* a URL that holds the paywall's address, but not at its beginning
MirrorURL == <<"https://example.org/", "https://www.ft.com">>

CreatorFeeds ==
    {Feed(u, Document("1", <<>>)) : u \in {PaywalledURL, PlainURL, MirrorURL}}

\* the raw items: a link that is empty, plain, with a tracking query, or one
\* url.Parse rejects; a GUID; a comments link or none; a date that is empty,
\* unreadable or readable
CreatorItems ==
    {Item(<<"x">>, link, pubDate, guid, comments) :
        link \in {<<>>, <<"a">>, <<"a", "?utm=1">>, <<"a", "%zz">>},
        pubDate \in {EmptyDate, BadDate, RawDate(dateFormats[1], 1)},
        guid \in {<<>>, <<"b">>, <<"b", "?utm=1">>},
        comments \in {<<>>, <<"c">>}}

\* newFeedItem := newFeedItemCreator(feed)
InitCreator ==
    /\ PipelineIdle
    /\ ParserIdle
    /\ WrapperIdle
    /\ StoreIdle
    /\ AppIdle
    /\ now = MaxTime - 1
    /\ filters = <<>> /\ fstate = <<>> /\ presented = <<>>
    /\ last = NoCall /\ ncalls = 0
    /\ BatchIdle
    /\ StreamIdle
    /\ DisplayIdle
    /\ \E feed \in CreatorFeeds : creator = [feed |-> feed, t |-> now]
    /\ itemCall = NoItemCall
    /\ nitems = 0

\* feedItem, err := newFeedItem(item)
CallNewFeedItem ==
    /\ nitems < MaxItemCalls
    /\ \E item \in CreatorItems :
          itemCall' = [called |-> TRUE, item |-> item,
                       ret |-> newFeedItem(creator.feed, creator.t, item)]
    /\ nitems' = nitems + 1
    /\ UNCHANGED <<now, fvars, bvars, svars, dvars, gvars, cvars, stvars, uvars, qvars, wvars,
                   creator>>

NextCreator == Tick \/ CallNewFeedItem

SpecCreator == InitCreator /\ [][NextCreator]_vars

\* the link without the pieces that are its query
StripQuery(link) == SelectSeq(link, LAMBDA piece : piece \notin QueryPieces)

\* C21: the link formatter maps each raw item to the item's link (or its GUID
\* when the link is empty) with the query parameters removed, prefixed with
\* https://archive.is/ iff the feed's URL begins with a configured paywall
\* prefix; every link emitted for an item is written this way.
C21_LinkFormatter ==
    (itemCall.called /\ itemCall.ret.err = "nil") =>
       LET item == itemCall.item
           raw == IF item.Link = <<>> THEN item.GUID ELSE item.Link
           paywalled == \E k \in 1..Len(paywalls) :
                           HasPrefix(creator.feed.URL, paywalls[k])
       IN  itemCall.ret.item.Links[1]
              = IF paywalled THEN <<"https://archive.is/">> \o StripQuery(raw)
                ELSE StripQuery(raw)

\* C30: every FeedItem produced by unpacking a raw item has a links sequence of
\* length 1 or 2: first the formatted primary link, then the raw item's
\* comments link iff that is not empty; no unpacked item has empty links, so
\* none is the separator or a title card.
C30_LinksOneOrTwo ==
    (itemCall.called /\ itemCall.ret.err = "nil") =>
       LET item == itemCall.item
           links == itemCall.ret.item.Links
       IN  /\ Len(links) \in {1, 2}
           /\ links[1] = formatLink(creator.feed, item)
           /\ Len(links) = 2 <=> item.Comments # <<>>
           /\ Len(links) = 2 => links[2] = item.Comments
           /\ links # <<>>
           /\ itemCall.ret.item # ZeroItem

\* the closure was called twice; the last raw item has no link, a GUID with a
\* query and a comments link, and the item made of it has two links
C30_Witness ==
    /\ nitems = 2
    /\ itemCall.called
    /\ itemCall.ret.err = "nil"
    /\ itemCall.item.Link = <<>>
    /\ itemCall.item.GUID = <<"b", "?utm=1">>
    /\ itemCall.item.Comments = <<"c">>
    /\ itemCall.ret.item.Links = <<<<"b">>, <<"c">>>>

----------------------------------------------------------------------------
\* C22: an item whose PublishTime is unset (the zero time) is rejected by
\* OldestItem(maxAge) for every maxAge: an unset date is always treated as
\* expired.
C22_UnsetDateRejected ==
    \A k \in CalledOf("OldestItem") :
        last.item.PublishTime = 0 => ~last.results[k]

----------------------------------------------------------------------------
\* the step in which the selected function goes on to b.NewPage
ExtractionStep ==
    /\ uipc = "open"
    /\ exited = "no"
    /\ uipc' = "idle" \/ exited' = "panic"

\* C23: the browser is started exactly once by its goroutine; a select made
\* before that has completed waits for it, so the call of NewPage of a
\* selection runs only after the browser was started successfully and never
\* on a Browser that is not initialised.
C23_ExtractionAfterInit ==
    /\ [](exited # "panic")
    /\ [][ExtractionStep => bpc \in {"done", "synced"}]_vars
    /\ [][bpc' # bpc => (bpc = "start" \/ (bpc = "done" /\ bpc' = "synced"))]_vars

----------------------------------------------------------------------------
\* C24: in every state exactly one of the two panes has its border
\* highlighted, and it is the pane that has the focus; before any key the
\* focus is on the list and the border of the list is highlighted.
C24_BorderFollowsFocus ==
    /\ \/ focus = "list" /\ listBorder = "green" /\ textBorder = "gray"
       \/ focus = "textView" /\ textBorder = "green" /\ listBorder = "gray"
    /\ event = "none" => focus = "list"

\* an article was opened and dismissed: the focus and the highlight are back
\* on the list
C24_Witness ==
    /\ exited = "no"
    /\ uipc = "idle"
    /\ event = "Escape"
    /\ textView # <<>>
    /\ focus = "list"
    /\ listBorder = "green"
    /\ textBorder = "gray"

\* the step in which the event loop takes key k
KeyStep(k) ==
    /\ exited = "no"
    /\ uipc = "idle"
    /\ event' = k
    /\ bpc' = bpc
    /\ <<event, focus, uipc, exited>>' # <<event, focus, uipc, exited>>

\* what C25 says of each key
C25_KeysMoveFocus ==
    /\ (KeyStep("Right") /\ focus = "list") => focus' = "textView"
    /\ (KeyStep("Left") /\ focus = "textView") => focus' = "list"
    /\ ((KeyStep("Enter") \/ KeyStep("Escape")) /\ focus = "textView")
          => focus' = "list"
    /\ (KeyStep("Left") /\ focus = "list") => focus' = "list"
    /\ (KeyStep("Right") /\ focus = "textView") => focus' = "textView"
    /\ KeyStep("CtrlC") => exited' = "stopped"

\* the steps of C25 that move the focus
FocusMovedByKey ==
    \/ KeyStep("Right") /\ focus = "list" /\ focus' = "textView"
    \/ KeyStep("Left") /\ focus = "textView" /\ focus' = "list"
    \/ (KeyStep("Enter") \/ KeyStep("Escape")) /\ focus = "textView" /\ focus' = "list"

\* C25 as stated: move-right on the list leads to the detail pane, move-left
\* and the dismiss keys on the detail pane lead to the list, move-left on the
\* list and move-right on the detail pane leave the focus, the quit key stops
\* the session, and nothing else changes which pane has the focus.
C25_FocusTransitions ==
    [][C25_KeysMoveFocus /\ (focus' # focus => FocusMovedByKey)]_vars

\* C25, amended: besides these, the select key on a list entry with a link
\* leads to the detail pane once the page of the link is there; nothing else
\* changes which pane has the focus.
C25_FocusTransitionsAndSelect ==
    [][/\ C25_KeysMoveFocus
       /\ focus' # focus =>
             \/ FocusMovedByKey
             \/ /\ OpenedStep
                /\ event = "Enter"
                /\ focus = "list"
                /\ focus' = "textView"]_vars

\* the focus went to the detail pane by move-right, with nothing selected
\* before, and came back by move-left
C25_Witness ==
    /\ exited = "no"
    /\ uipc = "idle"
    /\ event = "Left"
    /\ focus = "list"
    /\ lastSelect = NoEntry
    /\ textView = <<>>
    /\ Len(list.items) > 0

----------------------------------------------------------------------------
\* the step in which the selected function ends with the error of NewPage
ExtractionFailedStep ==
    /\ uipc = "open"
    /\ uipc' = "idle"
    /\ ErrorPrefixes \cap Range(textView') # {}

\* C26: when the extraction fails for a selected link, the error text is
\* written into the detail pane, the session keeps running, the focus stays on
\* the list with the list border highlighted, and the event loop is free for
\* the next key.
C26_ExtractionErrorInline ==
    [][ExtractionFailedStep =>
          /\ \E res \in NewPageResults :
                /\ NewPage(selected, res).err # <<>>
                /\ textView' = selected \o <<"\n", "\n">> \o NewPage(selected, res).err
          /\ exited' = "no"
          /\ focus' = "list"
          /\ listBorder' = "green"
          /\ textBorder' = "gray"]_vars

----------------------------------------------------------------------------
(* SpecMain: main of cmd/main.go from the fetches on. The fetches of        *)
(* GetFeeds are joined before GetFeedItems runs the filters; the fetches   *)
(* of GetFeedsAsync send on the channel the consumer of RunApp ranges over. *)

\* Largest number of URLs in the feeds file.
MaxMainURLs == 2

MainURLs == {PaywalledURL, PlainURL}

\* the document the host of a URL serves
ServedBy(url) ==
    IF url = PaywalledURL
    THEN Document("1", <<ItemDated, ItemUndated>>)
    ELSE Document("2", <<ItemBadDate, ItemDated>>)

MainDocs == {ServedBy(url) : url \in MainURLs}

\* what a fetch can meet: an error of getFeed, or a document
MainResponses ==
    {[err |-> e, doc |-> Document("", <<>>)] : e \in FetchErrors}
    \cup {[err |-> "nil", doc |-> d] : d \in MainDocs}

\* filters := []rss.Filter{rss.OldestItem(maxAge), rss.Deduplicate(),
\* itemFilter(maxItems)} (cmd/main.go:267)
MainFilterLists == PipelineFilterLists \ {<<>>}

\* the session is interactive (cmd/main.go:269)
Interactive == mode # "none"

InitMain ==
    /\ StoreIdle
    /\ CreatorIdle
    /\ ParserIdle
    /\ WrapperIdle
    /\ AppIdle
    /\ DisplayIdle
    /\ now = MaxTime - 1
    /\ filters \in MainFilterLists
    /\ fstate = [k \in 1..Len(filters) |-> NewState]
    /\ presented = [k \in 1..Len(filters) |-> NoHistory]
    /\ last = NoCall
    /\ ncalls = 0
    /\ urlsB \in UNION {[1..n -> MainURLs] : n \in 0..MaxMainURLs}
    /\ spawned = 0
    /\ taskpc = [i \in 1..Len(urlsB) |-> "none"]
    /\ result = [i \in 1..Len(urlsB) |-> Nil]
    /\ served = [i \in 1..Len(urlsB) |-> "none"]
    /\ order = <<>>
    /\ wg = Len(urlsB)
    /\ results = [i \in 1..Len(urlsB) |-> Nil]
    /\ mainpc = "loop"
    /\ ret = <<>>
    /\ errsCh = MakeChan(0)
    /\ sent = <<>> /\ pushed = <<>> /\ received = <<>>
    /\ panic = "none"
    /\ feeds = <<>> /\ fi = 0 /\ ii = 0 /\ createdAt = 0 /\ gpc = "idle"
    /\ list = NewList /\ listIndex = 0
    /\ currentPosition = 0 /\ pending = <<>>
    /\ arrived = <<>> /\ handled = 0
    /\ \/ \* feeds := rss.GetFeeds(urls)
          /\ mode = "none"
          /\ cpc = "idle"
          /\ resultsCh = MakeChan(0)
       \/ \* feedsCh := rss.GetFeedsAsync(urls); interactiveDisplay(feedsCh, ...)
          /\ mode \in {"ReverseChronological", "Grouped"}
          /\ cpc = "range"
          /\ resultsCh = MakeChan(Len(urlsB))

\* one fetch task: getFeed(url) meets an error or the document of the host;
\* order is kept for the slice of GetFeeds only
MFetch(i) ==
    /\ taskpc[i] = "fetch"
    /\ \E resp \in MainResponses :
          /\ resp.err = "nil" => resp.doc = ServedBy(urlsB[i])
          /\ result' = [result EXCEPT ![i] =
                           IF resp.err # "nil" THEN Nil ELSE Feed(urlsB[i], resp.doc)]
          /\ served' = [served EXCEPT ![i] =
                           IF resp.err # "nil" THEN "failed" ELSE resp.doc.Channel.Title]
    /\ order' = IF Interactive THEN order ELSE Append(order, i)
    /\ taskpc' = [taskpc EXCEPT ![i] = "store"]
    /\ UNCHANGED <<now, pvars, fvars, dvars, svars, urlsB, spawned, wg, results, mainpc, ret>>

\* GetFeeds: the task stores its result in the slice
MStore(i) == ~Interactive /\ TaskStore(i)

\* GetFeedsAsync: the task pushes its result, nil when the fetch failed, onto
\* the stream
MSend(i) ==
    /\ Interactive
    /\ taskpc[i] = "store"
    /\ Len(resultsCh.buf) < resultsCh.cap
    /\ ~resultsCh.closed
    /\ resultsCh' = Send(resultsCh, result[i])
    /\ sent' = Append(sent, i)
    /\ pushed' = Append(pushed, result[i])
    /\ taskpc' = [taskpc EXCEPT ![i] = "defer"]
    /\ UNCHANGED <<now, pvars, fvars, dvars, urlsB, spawned, result, served, order, wg, results,
                   mainpc, ret, errsCh, received, panic>>

\* GetFeeds returns the slice once every fetch has finished
MReturn == ~Interactive /\ WaitReturn

\* GetFeedsAsync: the stream is closed once every fetch has completed or failed
MClose ==
    /\ Interactive
    /\ mainpc = "wait"
    /\ WaitDone(wg)
    /\ resultsCh' = [resultsCh EXCEPT !.closed = TRUE]
    /\ mainpc' = "closed"
    /\ UNCHANGED <<now, pvars, fvars, dvars, bvars_but_mainpc, errsCh, sent, pushed, received,
                   panic>>

\* feedItems := rss.GetFeedItems(feeds, filters...) (cmd/main.go:274)
MGetFeedItems ==
    /\ ~Interactive
    /\ mainpc = "returned"
    /\ gpc = "idle"
    /\ feeds' = ret
    /\ fi' = 1
    /\ gpc' = "feeds"
    /\ UNCHANGED <<now, stvars, uvars, qvars, wvars, nvars, fvars, bvars, svars, dvars, cvars, ii,
                   createdAt>>

\* `for feed := range feeds` of the consumer receives the next feed of the
\* stream (app.go:64)
MReceive ==
    /\ Interactive
    /\ cpc = "range"
    /\ resultsCh.buf # <<>>
    /\ CReceiveFeed(Head(resultsCh.buf))
    /\ resultsCh' = [resultsCh EXCEPT !.buf = Tail(@)]
    /\ received' = Append(received, Head(resultsCh.buf))
    /\ UNCHANGED <<now, stvars, uvars, qvars, wvars, nvars, bvars, dvars, gvars, mode, list, listIndex,
                   handled, errsCh, sent, pushed>>

\* A plausible slip: the loop ends as soon as nothing is waiting on the stream
RangeEndsWhenEmpty(ch) == ch.buf = <<>>

\* `for feed := range feeds` ends (app.go:64): the channel is closed and
\* nothing is left in it
RangeEnds(ch) == ch.buf = <<>> /\ ch.closed

\* the stream is closed and drained: the loop of the consumer ends
MClosed ==
    /\ Interactive
    /\ RangeEnds(resultsCh)
    /\ CClosed

NextMain ==
    \/ Spawn
    \/ LoopEnd
    \/ \E i \in 1..Len(urlsB) : MFetch(i)
    \/ \E i \in 1..Len(urlsB) : MStore(i)
    \/ \E i \in 1..Len(urlsB) : MSend(i)
    \/ \E i \in 1..Len(urlsB) : TaskDone(i)
    \/ MReturn
    \/ MClose
    \/ MGetFeedItems
    \/ GRangeFeeds
    \/ GRangeItems
    \/ MReceive
    \/ MClosed
    \/ CInsert
    \/ CDraw
    \/ CSetCurrentItem

SpecMain == InitMain /\ [][NextMain]_vars

----------------------------------------------------------------------------
\* C27: a filter with state is never invoked by two tasks at once. In batch mode
\* GetFeedItems runs only after GetFeeds returned, every fetch task having
\* finished; in interactive mode GetFeedItems never runs. A step that presents
\* an item to the filters or changes a closure's state is a step of main inside
\* the item loop of GetFeedItems (batch) or the consumer's receive of a feed
\* (interactive), and no fetch task moves in it.
AllFetchesExited == \A i \in 1..Len(urlsB) : taskpc[i] = "exit"

FiltersInvoked == <<fstate, ncalls>>' # <<fstate, ncalls>>

MainInvokes ==
    /\ ~Interactive
    /\ gpc = "items"
    /\ AllFetchesExited
    /\ UNCHANGED <<bvars, cvars>>

ConsumerInvokes ==
    /\ Interactive
    /\ cpc = "range"
    /\ cpc' \in {"insert", "draw"}
    /\ arrived' = Append(arrived, Head(resultsCh.buf))
    /\ UNCHANGED <<bvars, gvars>>

C27_FiltersOneTask ==
    /\ [](gpc # "idle" => ~Interactive /\ mainpc = "returned" /\ AllFetchesExited)
    /\ [][FiltersInvoked => MainInvokes \/ ConsumerInvokes]_vars

\* batch mode: the second fetch finished first, and both feeds went through
\* the filters, the deduplicating one having recorded links
C27_Witness ==
    /\ ~Interactive
    /\ gpc = "done"
    /\ order = <<2, 1>>
    /\ ncalls >= 3
    /\ \E k \in 1..Len(filters) : filters[k].kind = "Deduplicate" /\ fstate[k].urls # {}

\* interactive mode: both feeds arrived, the second URL's first, and the
\* consumer presented their items to the filters
C27_WitnessInteractive ==
    /\ Interactive
    /\ cpc = "exit"
    /\ sent = <<2, 1>>
    /\ ncalls >= 3

----------------------------------------------------------------------------
\* C28: a display mode is a pure function of its input. After the call the
\* caller's slice holds the items it held before the call, in the same order,
\* and any other call of the mode on that input returns what this call
\* returned: for Grouped, whatever order the range over the map takes.
ModeCalled == dpc = "start" /\ dpc' # "start"

SameOutputAgain ==
    IF dpc' = "Grouped"
    THEN \A keys \in KeyOrders(FeedsOf(feedItems)) : Grouped(feedItems, keys) = displayed'
    ELSE ReverseChronological(feedItems) = displayed'

C28_DisplayModePure ==
    /\ [](dpc # "start" => feedItems = feedItems0)
    /\ [][ModeCalled => SameOutputAgain]_vars

\* the part of C28 that holds for Grouped alone: the caller's slice is as it was
C28_GroupedKeepsInput == dpc = "Grouped" => feedItems = feedItems0

\* the part of C28 that holds for ReverseChronological alone: the output is
\* the one output the input has
C28_ReverseChronologicalDetermined ==
    [][ModeCalled /\ dpc' = "ReverseChronological" => SameOutputAgain]_vars

----------------------------------------------------------------------------
\* C29: in an interactive session whose filters include Deduplicate, no two
\* entries of the list have the same secondary link, unless it is empty,
\* whatever feeds arrive in whatever order. When a feed arrives, none of its
\* items whose first link is the link of an entry of the list is passed on to
\* be inserted, and the entries of the list stay where they are.
HasDeduplicate == \E k \in 1..Len(filters) : filters[k].kind = "Deduplicate"

ListedLinks(l) == {l.items[p].SecondaryText : p \in 1..Len(l.items)} \ {<<>>}

NoLinkListedTwice(l) ==
    \A p, q \in 1..Len(l.items) :
        (p # q /\ l.items[p].SecondaryText = l.items[q].SecondaryText)
            => l.items[p].SecondaryText = <<>>

FeedReceived == cpc = "range" /\ arrived' # arrived

C29_NoDuplicateListed ==
    /\ []((cpc # "idle" /\ HasDeduplicate) => NoLinkListedTwice(list))
    /\ [][(FeedReceived /\ HasDeduplicate) =>
             \A k \in 1..Len(pending') :
                 Len(pending'[k].Links) > 0 => pending'[k].Links[1] \notin ListedLinks(list)]_vars
    /\ [][(cpc # "idle" /\ HasDeduplicate) =>
             /\ Len(list'.items) >= Len(list.items)
             /\ \A p \in 1..Len(list.items) : list'.items[p] = list.items[p]]_vars

\* two different feeds arrived; the last item presented has the link of an
\* entry of the list, and Deduplicate rejected it
C29_Witness ==
    /\ cpc = "range"
    /\ HasDeduplicate
    /\ handled = 2
    /\ arrived[1] # arrived[2]
    /\ Len(list.items) >= 2
    /\ last.results = <<TRUE, FALSE>>
    /\ last.item.Links[1] \in ListedLinks(list)

----------------------------------------------------------------------------
\* C31: a call of a Deduplicate() closure that rejects the item leaves the set
\* of seen links as it was, and an item none of whose links is a link of an
\* item the closure accepted is accepted.
C31_RejectionRecordsNothing ==
    [][ncalls' = ncalls + 1 =>
          \A k \in 1..Len(filters) :
              (filters[k].kind = "Deduplicate" /\ k <= Len(last'.results)) =>
                  /\ ~last'.results[k] => fstate'[k].urls = fstate[k].urls
                  /\ (Range(last'.item.Links) \cap presented[k].acc = {})
                         => last'.results[k]]_vars

\* the first part of C31 alone
C31_SetUnchangedOnRejection ==
    [][ncalls' = ncalls + 1 =>
          \A k \in 1..Len(filters) :
              (filters[k].kind = "Deduplicate" /\ k <= Len(last'.results)
               /\ ~last'.results[k]) => fstate'[k].urls = fstate[k].urls]_vars

----------------------------------------------------------------------------
\* C32: GetFeedItems keeps the order of presentation. The loops go through the
\* feeds in order and through the items of a feed in document order, every
\* item that has a readable date is presented to the filters when the loop is
\* at it, and it is put at the end of the result or left out; so the result is
\* a subsequence of the items made of the feeds that are not nil, feed after
\* feed, each feed's in document order.
RECURSIVE IsSubsequence(_, _)
IsSubsequence(s, t) ==
    IF s = <<>> THEN TRUE
    ELSE IF t = <<>> THEN FALSE
    ELSE IF Head(s) = Head(t) THEN IsSubsequence(Tail(s), Tail(t))
    ELSE IsSubsequence(s, Tail(t))

\* the items made of a feed by a creator whose date parser holds the time t
MadeOf(feed, t) ==
    LET made == [k \in 1..Len(feed.RSS.Channel.Items) |->
                    newFeedItem(feed, t, feed.RSS.Channel.Items[k])]
        good == SelectSeq(made, LAMBDA c : c.err = "nil")
    IN  [k \in 1..Len(good) |-> good[k].item]

RECURSIVE MadeOfAll(_, _, _)
\* the items made of the feeds from feed k on, ts[j] being the time at which
\* the creator of feed j was made
MadeOfAll(fs, ts, k) ==
    IF k > Len(fs) THEN <<>>
    ELSE (IF fs[k].nil THEN <<>> ELSE MadeOf(fs[k], ts[k])) \o MadeOfAll(fs, ts, k + 1)

\* the clock readings of a run
ClockReadings == {MaxTime - 1, MaxTime}

ItemStep == gpc = "items" /\ ii' # ii

C32_ResultInOrder ==
    gpc = "done" =>
        \E ts \in [1..Len(feeds) -> ClockReadings] :
            IsSubsequence(feedItems, MadeOfAll(feeds, ts, 1))

C32_PresentedInOrder ==
    /\ fi' \in {fi, fi + 1}
    /\ (gpc = "feeds" /\ gpc' = "items") => (fi' = fi /\ ii' = 1 /\ ~feeds[fi].nil)
    /\ (gpc = "items" /\ gpc' = "feeds") =>
           (fi' = fi + 1 /\ ii = Len(feeds[fi].RSS.Channel.Items) + 1)
    /\ ItemStep =>
           LET c == newFeedItem(feeds[fi], createdAt, feeds[fi].RSS.Channel.Items[ii])
           IN  /\ ii' = ii + 1 /\ fi' = fi
               /\ IF c.err # "nil"
                  THEN UNCHANGED <<ncalls, last, feedItems>>
                  ELSE /\ ncalls' = ncalls + 1
                       /\ last'.item = c.item
                       /\ feedItems' = IF last'.ok THEN Append(feedItems, c.item)
                                       ELSE feedItems
    /\ ~ItemStep => UNCHANGED <<ncalls, feedItems>>

C32_OrderPreserved ==
    /\ [](gpc # "idle" => C32_ResultInOrder)
    /\ [][gpc # "idle" => C32_PresentedInOrder]_vars

\* three feeds, one of them nil, gave a result of two items or more, and an
\* item in between was left out
C32_Witness ==
    /\ gpc = "done"
    /\ Len(feeds) = 3
    /\ \E k \in 1..3 : feeds[k].nil
    /\ feeds[1] # feeds[3]
    /\ Len(feedItems) >= 2
    /\ ncalls > Len(feedItems)

----------------------------------------------------------------------------
\* C33: the caps reject for good. Once a MaxItems(n) closure has returned
\* false, every later call of it returns false; once a MaxItemsPerChannel(n)
\* closure has returned false for an item of a channel, every later call of it
\* with an item of that channel returns false; and a call with an item of one
\* channel leaves the counts of the other channels as they were.
C33_CapsRejectForGood ==
    [][ncalls' = ncalls + 1 =>
          \A k \in 1..Len(filters) :
              k <= Len(last'.results) =>
                  /\ (filters[k].kind = "MaxItems" /\ presented[k].rejected # {})
                         => ~last'.results[k]
                  /\ (filters[k].kind = "MaxItemsPerChannel"
                      /\ last'.item.Channel \in presented[k].rejected)
                         => ~last'.results[k]
                  /\ filters[k].kind = "MaxItemsPerChannel" =>
                         \A c \in ChannelNames \ {last'.item.Channel} :
                             fstate'[k].counts[c] = fstate[k].counts[c]]_vars

\* MaxItemsPerChannel(1): an item of channel "1" was rejected, one of channel
\* "2" was accepted after it
C33_Witness ==
    /\ filters = <<[kind |-> "MaxItemsPerChannel", n |-> 1, maxAge |-> 0]>>
    /\ ncalls = 3
    /\ presented[1].byChan["1"] = 2
    /\ presented[1].passed = 2
    /\ presented[1].rejected = {"1"}
    /\ last.item.Channel = "2"
    /\ last.ok

\* MaxItems(1): the second and the third call returned false
C33_WitnessMaxItems ==
    /\ filters = <<[kind |-> "MaxItems", n |-> 1, maxAge |-> 0]>>
    /\ presented[1].calls = 3
    /\ presented[1].passed = 1
    /\ ~last.ok

----------------------------------------------------------------------------
(* SpecBatchFair: RefreshFeeds under a scheduler that keeps running          *)
(* (feeds.go:252-270). The Go scheduler runs some runnable goroutine as long *)
(* as there is one, and getFeed returns: a step of NextBatch that stays      *)
(* enabled is taken.                                                         *)
SpecBatchFair == SpecBatch /\ WF_vars(NextBatch)

\* The steps of one task, in the order of the closure's body.
TaskSteps ==
    {<<"none", "fetch">>, <<"fetch", "store">>, <<"store", "defer">>, <<"defer", "exit">>}

\* task i is at or before results[i] = result
MayStillWrite(i) == taskpc[i] \in {"none", "fetch", "store"}

\* C34: in RefreshFeeds each of the n tasks goes once through its body, and the
\* only step that touches the results is task i's own store, which touches
\* slot i alone; the caller reads the results only when no task may still
\* write, and has returned only after all n tasks exited; and when every
\* fetch returns, RefreshFeeds returns (n = 0 included).
C34_OwnSlotOnce ==
    [][/\ \A i \in 1..Len(urlsB) :
              taskpc'[i] # taskpc[i] => <<taskpc[i], taskpc'[i]>> \in TaskSteps
       /\ \A i \in 1..Len(urlsB) :
              results'[i] # results[i] =>
                  /\ taskpc[i] = "store" /\ taskpc'[i] = "defer"
                  /\ results'[i] = result[i]
                  /\ \A j \in 1..Len(urlsB) \ {i} : results'[j] = results[j]
       /\ \A i \in 1..Len(urlsB) :
              (taskpc[i] = "store" /\ taskpc'[i] = "defer") =>
                  \A j \in 1..Len(urlsB) \ {i} : results'[j] = results[j]]_vars

C34_ReadAfterAllExited ==
    [][mainpc' # mainpc /\ mainpc' = "returned" =>
           /\ \A i \in 1..Len(urlsB) : ~MayStillWrite(i) /\ taskpc[i] = "exit"
           /\ ret' = results]_vars

C34_ReturnedAfterAll ==
    mainpc = "returned" =>
        /\ \A i \in 1..Len(urlsB) : taskpc[i] = "exit"
        /\ ret = results

C34_Terminates == <>(mainpc = "returned")

C34_BatchJoin ==
    /\ C34_OwnSlotOnce
    /\ C34_ReadAfterAllExited
    /\ []C34_ReturnedAfterAll
    /\ C34_Terminates

\* three URLs; the tasks fetched in the order 2, 3, 1, all of them exited and
\* RefreshFeeds returned three slots, the one of the failed fetch nil
C34_Witness ==
    /\ mainpc = "returned"
    /\ Len(urlsB) = 3
    /\ order = <<2, 3, 1>>
    /\ \A i \in 1..3 : taskpc[i] = "exit"
    /\ served[3] = "failed"
    /\ ret[3] = Nil /\ ret[1] # Nil /\ ret[2] # Nil
    /\ wg = 0

\* no URL at all: RefreshFeeds returned the empty slice
C34_WitnessNoURL ==
    /\ mainpc = "returned"
    /\ Len(urlsB) = 0
    /\ ret = <<>>
    /\ spawned = 0

----------------------------------------------------------------------------
(* SpecSession: an interactive session (cmd/main.go:269-272, app.go:62-185): *)
(* the fetch tasks of GetFeedsAsync push onto the stream, the consumer of    *)
(* RunApp ranges over it, and the event loop takes keys meanwhile. A fetch   *)
(* task is one step here: its fetch ends and its result is on the stream.   *)
(* The keys are one that moves the cursor of the list and the one that ends *)
(* the session; the browser is not started.                                  *)

\* Largest number of URLs of a session.
MaxSessionURLs == 2

\* the keys pressed in a session: Down moves the cursor through every entry
\* of the list, Ctrl-C ends the session
SessionKeys == {"Down", "CtrlC"}

InitSession ==
    /\ StoreIdle
    /\ CreatorIdle
    /\ ParserIdle
    /\ WrapperIdle
    /\ DisplayIdle
    /\ now = MaxTime - 1
    /\ filters \in MainFilterLists
    /\ fstate = [k \in 1..Len(filters) |-> NewState]
    /\ presented = [k \in 1..Len(filters) |-> NoHistory]
    /\ last = NoCall
    /\ ncalls = 0
    /\ urlsB \in UNION {[1..n -> MainURLs] : n \in 0..MaxSessionURLs}
    /\ spawned = Len(urlsB)
    /\ taskpc = [i \in 1..Len(urlsB) |-> "fetch"]
    /\ result = [i \in 1..Len(urlsB) |-> Nil]
    /\ served = [i \in 1..Len(urlsB) |-> "none"]
    /\ order = <<>>
    /\ wg = Len(urlsB)
    /\ results = [i \in 1..Len(urlsB) |-> Nil]
    /\ mainpc = "wait"
    /\ ret = <<>>
    /\ resultsCh = MakeChan(Len(urlsB))
    /\ errsCh = MakeChan(0)
    /\ sent = <<>> /\ pushed = <<>> /\ received = <<>>
    /\ panic = "none"
    /\ feeds = <<>> /\ fi = 0 /\ ii = 0 /\ createdAt = 0 /\ gpc = "idle"
    /\ mode \in {"ReverseChronological", "Grouped"}
    /\ list = NewList /\ listIndex = 0
    /\ currentPosition = 0 /\ pending = <<>> /\ cpc = "range"
    /\ arrived = <<>> /\ handled = 0
    /\ focus = "list"
    /\ textView = <<>>
    /\ listBorder = "green"
    /\ textBorder = "gray"
    /\ bpc = "idle"
    /\ exited = "no"
    /\ uipc = "idle"
    /\ event = "none"
    /\ selected = <<>>
    /\ lastSelect = NoEntry

\* the process has not ended
SessionRuns == exited = "no"

\* GetFeedsAsync: the fetch of URL i completes or fails, and its result, nil
\* when it failed, is pushed onto the stream
SPush(i) ==
    /\ taskpc[i] = "fetch"
    /\ \E resp \in MainResponses :
          /\ resp.err = "nil" => resp.doc = ServedBy(urlsB[i])
          /\ result' = [result EXCEPT ![i] =
                           IF resp.err # "nil" THEN Nil ELSE Feed(urlsB[i], resp.doc)]
          /\ served' = [served EXCEPT ![i] =
                           IF resp.err # "nil" THEN "failed" ELSE resp.doc.Channel.Title]
    /\ resultsCh' = Send(resultsCh, result'[i])
    /\ sent' = Append(sent, i)
    /\ pushed' = Append(pushed, result'[i])
    /\ wg' = wg - 1
    /\ taskpc' = [taskpc EXCEPT ![i] = "exit"]
    /\ UNCHANGED <<now, pvars, fvars, dvars, urlsB, spawned, order, results, mainpc, ret,
                   errsCh, received, panic>>

\* a step of GetFeedsAsync: a fetch task pushes, or the stream is closed
FetchTaskStep ==
    /\ SessionRuns
    /\ \/ \E i \in 1..Len(urlsB) : SPush(i)
       \/ MClose

\* the consumer receives the next feed of the stream (app.go:64-76)
SReceive == SessionRuns /\ MReceive

\* `for feed := range feeds` has a feed to receive
SReceiveEnabled == SessionRuns /\ cpc = "range" /\ resultsCh.buf # <<>>

\* the other steps of the consumer (app.go:64, 78-88)
ConsumerTaskStep ==
    /\ SessionRuns
    /\ \/ MClosed
       \/ CInsert
       \/ CDraw
       \/ CSetCurrentItem

\* the event loop takes a key of the session
SKey == UKeyOf(SessionKeys)

NextSession ==
    \/ FetchTaskStep
    \/ SReceive
    \/ ConsumerTaskStep
    \/ SKey
    \/ UHandle

SpecSession == InitSession /\ [][NextSession]_vars

\* The Go scheduler runs every runnable goroutine: a step of the fetch tasks
\* or of the consumer that stays possible is taken, however many keys arrive.
\* The last conjunct is WF_vars(SReceive) by its definition, with what enables
\* SReceive written out.
SpecSessionFair ==
    /\ SpecSession
    /\ WF_vars(FetchTaskStep)
    /\ WF_vars(ConsumerTaskStep)
    /\ ([]<>~SReceiveEnabled \/ []<><<SReceive>>_vars)

\* how many of the feeds of s are not nil
NonNil(s) == Cardinality({k \in 1..Len(s) : s[k] # Nil})

\* the consumer has received, in the order of the pushes, a first part of
\* what was pushed, every feed once, and has finished all but at most the last
\* non-nil feed of them; the list and the items waiting to be inserted are
\* the accepted items, with the two title entries Grouped puts before the
\* items of a feed
C35_EachFeedOnce ==
    /\ Len(received) <= Len(pushed)
    /\ received = SubSeq(pushed, 1, Len(received))
    /\ arrived = received
    /\ Len(received) + Len(resultsCh.buf) = Len(pushed)
    /\ handled = NonNil(received) - (IF cpc \in {"insert", "draw", "restore"} THEN 1 ELSE 0)
    /\ listIndex = Len(list.items)
    /\ LET entries == Len(list.items) + Len(pending)
           accepted == presented[Len(filters)].passed
       IN  IF mode = "Grouped"
           THEN \E cards \in 0..NonNil(received) : entries = accepted + 2 * cards
           ELSE entries = accepted
    /\ panic = "none"

\* the consumer has left its loop only with the stream closed and drained,
\* every URL's result pushed and received, and every non-nil feed finished
C35_ExitAfterDrained ==
    cpc = "exit" =>
        /\ resultsCh.closed
        /\ resultsCh.buf = <<>>
        /\ Len(pushed) = Len(urlsB)
        /\ received = pushed
        /\ handled = NonNil(pushed)
        /\ pending = <<>>

\* the event loop can take a key, and the handler of the list can run,
\* wherever the consumer is; neither touches the stream or the consumer's place
C35_KeysBetweenBatches ==
    /\ [](SessionRuns /\ uipc = "idle" => ENABLED SKey)
    /\ [](SessionRuns /\ uipc = "handle" => ENABLED UHandle)
    /\ [][(uipc' # uipc \/ event' # event) =>
              UNCHANGED <<cpc, pending, arrived, handled, resultsCh, listIndex>>]_vars

\* C35: while the session runs and the scheduler is fair, the consumer of
\* RunApp receives every feed pushed onto the stream once and in the order of
\* the pushes, unpacks every non-nil one and inserts its accepted items, and
\* leaves its loop once the stream is closed and drained; the event loop can
\* take keys between the batches.
C35_ConsumerDrainsStream ==
    /\ []C35_EachFeedOnce
    /\ []C35_ExitAfterDrained
    /\ C35_KeysBetweenBatches
    /\ <>(cpc = "exit" \/ ~SessionRuns)

\* two feeds were pushed; the first is finished and is in the list, the second
\* waits on the stream, and the event loop is handling a Down key in between
C35_WitnessKeyBetween ==
    /\ SessionRuns
    /\ cpc = "range"
    /\ handled = 1
    /\ Len(list.items) >= 2
    /\ Len(resultsCh.buf) = 1 /\ Head(resultsCh.buf) # Nil
    /\ uipc = "handle" /\ event = "Down"

\* the session ran to the end of the stream: two feeds, one of them after a
\* nil, were finished, the cursor was moved by a key, and the consumer left
C35_Witness ==
    /\ SessionRuns
    /\ cpc = "exit"
    /\ Len(urlsB) = 2
    /\ handled = 2
    /\ resultsCh.closed
    /\ Len(list.items) >= 3
    /\ list.currentItem # 0
    /\ event = "Down"

----------------------------------------------------------------------------
(* SpecWrapper: the closure of newLineWrapper (app.go:339-369)               *)

\* Largest soft limit a wrapper is made with (app.go:300 makes it with 72).
MaxSoftLimit == 2

\* Longest string the closure is called with.
MaxBodyLen == 6

\* The bytes of the strings: a space, a letter, and the two bytes of a
\* character that UTF-8 writes in two bytes (the lead byte, then the
\* continuation byte).
Bytes == {" ", "a", "C3", "A9"}

\* string(b) of a byte b (app.go:345): the character with the code point b
ByteToString(b) == IF b = "C3" THEN "A-tilde" ELSE IF b = "A9" THEN "copyright" ELSE b

\* What `range s` finds at byte offset i of s: the two-byte character, the
\* replacement character for a byte that starts no character, or the letter.
DecodeRune(s, i) ==
    IF s[i + 1] = "C3" /\ i + 2 <= Len(s) /\ s[i + 2] = "A9"
    THEN [char |-> "e-acute", size |-> 2]
    ELSE IF s[i + 1] \in {"C3", "A9"}
    THEN [char |-> "U+FFFD", size |-> 1]
    ELSE [char |-> s[i + 1], size |-> 1]

\* A plausible slip: the characters are counted, not their byte offsets
RECURSIVE FindLoopByRune(_, _, _, _)
FindLoopByRune(s, target, i, n) ==
    IF i >= Len(s) THEN 0
    ELSE IF DecodeRune(s, i).char = target THEN n
    ELSE FindLoopByRune(s, target, i + DecodeRune(s, i).size, n + 1)

findIndexWhereByRune(s, target) == FindLoopByRune(s, target, 0, 0)

\* for i, char := range s (app.go:362-367), from byte offset i on
RECURSIVE FindLoop(_, _, _)
FindLoop(s, target, i) ==
    IF i >= Len(s) THEN 0
    ELSE IF DecodeRune(s, i).char = target THEN i
    ELSE FindLoop(s, target, i + DecodeRune(s, i).size)

\* findIndexWhere(s, target) (app.go:361-369): the byte offset of the first
\* character of s that is target, 0 when there is none
findIndexWhere(s, target) == FindLoop(s, target, 0)

\* lineBreakIdx of one turn of the loop (app.go:343-348)
LineBreakIdx(b, limit) ==
    IF ByteToString(b[limit + 1]) # " "
    THEN limit + findIndexWhere(SubSeq(b, limit + 1, Len(b)), " ")
    ELSE limit

\* wrapLines := newLineWrapper(softLimit); wrapLines(body)
InitWrapper ==
    /\ StoreIdle
    /\ CreatorIdle
    /\ ParserIdle
    /\ AppIdle
    /\ PipelineIdle
    /\ now = MaxTime - 1
    /\ filters = <<>> /\ fstate = <<>> /\ presented = <<>>
    /\ last = NoCall /\ ncalls = 0
    /\ BatchIdle
    /\ StreamIdle
    /\ DisplayIdle
    /\ softLimit \in 1..MaxSoftLimit
    /\ input \in UNION {[1..n -> Bytes] : n \in 0..MaxBodyLen}
    /\ body = input
    /\ lines = <<>>
    /\ wpc = "loop"

\* one turn of `for len(body) > softLimit` (app.go:342-352)
WBreak ==
    /\ wpc = "loop"
    /\ Len(body) > softLimit
    /\ LET lineBreakIdx == LineBreakIdx(body, softLimit)
       IN  /\ lines' = Append(lines, SubSeq(body, 1, lineBreakIdx))
           /\ body' = SubSeq(body, lineBreakIdx + 1, Len(body))
    /\ UNCHANGED <<now, fvars, bvars, svars, dvars, gvars, cvars, stvars, uvars, qvars, nvars,
                   softLimit, input, wpc>>

\* the loop is over: what is left is the last line (app.go:353-356)
WReturn ==
    /\ wpc = "loop"
    /\ Len(body) <= softLimit
    /\ lines' = IF Len(body) > 0 THEN Append(lines, body) ELSE lines
    /\ wpc' = "done"
    /\ UNCHANGED <<now, fvars, bvars, svars, dvars, gvars, cvars, stvars, uvars, qvars, nvars,
                   softLimit, input, body>>

NextWrapper ==
    \/ WBreak
    \/ WReturn

SpecWrapper == InitWrapper /\ [][NextWrapper]_vars

\* The closure runs on: a turn of the loop that can be taken is taken.
SpecWrapperFair == SpecWrapper /\ WF_vars(NextWrapper)

\* the lines of ls from the k-th on, one after the other
RECURSIVE ConcatFrom(_, _)
ConcatFrom(ls, k) ==
    IF k > Len(ls) THEN <<>> ELSE ls[k] \o ConcatFrom(ls, k + 1)

\* the places of t, counted from 1, after the first limit bytes that hold a
\* space
SpacesFrom(t, limit) == {j \in (limit + 1)..Len(t) : t[j] = " "}

\* the least number of a set of numbers that is not empty
Least(S) == CHOOSE j \in S : \A other \in S : j <= other

\* nothing is lost at any turn: the lines so far and what is left are the
\* input, and the lines returned are the input
C36_NothingLost ==
    ConcatFrom(lines, 1) \o (IF wpc = "loop" THEN body ELSE <<>>) = input

\* of what was returned, every line but the last has softLimit bytes or more
\* and, when the text from it on has a space at softLimit or after, ends
\* before the first such space
C36_BreaksAtNextSpace ==
    wpc = "done" =>
        /\ ConcatFrom(lines, 1) = input
        /\ \A k \in 1..(Len(lines) - 1) :
              LET remaining == ConcatFrom(lines, k)
              IN  /\ Len(lines[k]) >= softLimit
                  /\ SpacesFrom(remaining, softLimit) # {} =>
                         Len(lines[k]) = Least(SpacesFrom(remaining, softLimit)) - 1
                  /\ remaining[Len(lines[k]) + 1] = " " \/ Len(lines[k]) = softLimit
        /\ Len(lines) > 0 => Len(lines[Len(lines)]) \in 1..softLimit

\* C36: the closure of newLineWrapper(softLimit), softLimit at least 1, returns
\* on every string; the lines it returns, one after the other, are the string;
\* every line but the last has softLimit bytes or more and ends before the
\* first space at or after softLimit of the text that was left, when there is
\* such a space.
C36_WrapperSplitsAtSpaces ==
    /\ []C36_NothingLost
    /\ []C36_BreaksAtNextSpace
    /\ <>(wpc = "done")

\* soft limit 2: a string whose two-byte character comes before the space was
\* cut into three lines, the first of them longer than the limit
C36_Witness ==
    /\ wpc = "done"
    /\ softLimit = 2
    /\ input = <<"a", "C3", "A9", " ", "a", " ">>
    /\ lines = <<<<"a", "C3", "A9">>, <<" ", "a">>, <<" ">>>>

\* no space after the limit: the line is cut at the limit, inside the
\* two-byte character
C36_WitnessNoSpace ==
    /\ wpc = "done"
    /\ softLimit = 1
    /\ input = <<"a", "C3", "A9">>
    /\ lines = <<<<"a">>, <<"C3">>, <<"A9">>>>

====
